---- MODULE Spec2Model ----
(***************************************************************************)
(* Ingestion-and-retrieval pipeline of the local agentic RAG application:  *)
(* the text chunker (app/ingestion/chunker.py), chunk identity and         *)
(* metadata (app/ingestion/metadata.py), the ingestion orchestrator        *)
(* (app/tools/ingest.py), the vector-store client (app/db/chroma.py), the  *)
(* retrieval tool (app/tools/retrieve.py) and the metadata query tool      *)
(* (app/tools/metadata.py).                                                *)
(*                                                                         *)
(* Strings.  A string is a sequence of pieces.  A piece is a run of text   *)
(* without inner sentence boundary: tok is the number of tokens the        *)
(* tokenizer gives the piece on its own, lead the tokens that a single     *)
(* space in front of it adds when it follows other text (cl100k_base       *)
(* merges a space into a following word, lead 0, but keeps it apart from   *)
(* a following digit group, lead 1), term whether the piece ends with one  *)
(* of . ! ?, and sep the whitespace that follows the piece inside the      *)
(* string: "sp" one space, "para" a blank line, "" at the end of the       *)
(* string.  id is the position of the piece in the text it was cut from.   *)
(***************************************************************************)
EXTENDS Integers, Sequences, FiniteSets, TLC

VARIABLES
    ctext, cmeta, cout, cpc,    \* chunk_text: the text, its metadata, the passages
    idA, idB, outA, outB, ipc,  \* generate_chunk_id: two triples and their ids
    store,                      \* the collection: id -> stored passage
    dupPolicy,                  \* what the store's add does with an id it holds
    clock,                      \* datetime.now()
    ncalls,                     \* ingest_document calls made so far
    call,                       \* the last ingest_document call and what it did
    batch,                      \* the ingest_multiple_documents call in progress
    rcall,                      \* the last call of the retrieval tool
    info,                       \* the metadata query tool: the stored passages and the last call
    mcall,                      \* the last call of a MetadataExtractor function
    client,                     \* ChromaDBClient: the database, the cached handle, the last call
    chunker,                    \* the TextChunker instance last constructed
    doc,                        \* the last chunk_document call: the units given, the passages, the units after
    race                        \* two callers inside get_or_create_collection at once

cvars == <<ctext, cmeta, cout, cpc>>

ivars == <<idA, idB, outA, outB, ipc>>

gvars == <<store, dupPolicy, clock, ncalls, call, batch>>

tvars == <<rcall, info, mcall, client>>

svars == <<chunker, doc, race>>

vars == <<cvars, ivars, gvars, tvars, svars>>

(* ------------------------------------------------------------------ *)
(* Bounds of the explored inputs                                       *)
(* ------------------------------------------------------------------ *)

\* Longest text, in pieces, given to chunk_text.
MaxPieces == 4

\* Token counts a piece may have.
TokSizes == {25, 50, 550, 600}

\* Token counts of the pieces that may begin with a digit group.
DigitLedSizes == {50}

(* ------------------------------------------------------------------ *)
(* TextChunker: parameters                                             *)
(* ------------------------------------------------------------------ *)

min_chunk_size == 300

max_chunk_size == 600

overlap_size == 75

(* ------------------------------------------------------------------ *)
(* Helpers on sequences and mappings                                   *)
(* ------------------------------------------------------------------ *)

\* dict update: {**m, k: v}
Put(m, k, v) == [x \in (DOMAIN m) \cup {k} |-> IF x = k THEN v ELSE m[x]]

RECURSIVE SumTo(_, _)
\* f[1] + ... + f[n]
SumTo(f, n) == IF n = 0 THEN 0 ELSE SumTo(f, n - 1) + f[n]

RECURSIVE Flatten(_)
\* concatenation of a sequence of sequences
Flatten(ss) == IF ss = <<>> THEN <<>> ELSE Head(ss) \o Flatten(Tail(ss))

\* The string s with surrounding whitespace removed: str.strip()
strip(s) == IF s = <<>> THEN s ELSE [s EXCEPT ![Len(s)].sep = ""]

\* " ".join(parts): the parts one after the other, one space between them.
join(parts) ==
    strip(Flatten([k \in 1..Len(parts) |->
              IF parts[k] = <<>> THEN <<>>
              ELSE [parts[k] EXCEPT ![Len(parts[k])].sep = "sp"]]))

\* The positions, in the text a string was cut from, of its pieces.
PieceIdsOf(s) == [k \in 1..Len(s) |-> s[k].id]

(* ------------------------------------------------------------------ *)
(* TextChunker                                                         *)
(* ------------------------------------------------------------------ *)

\* Tokens the whitespace between piece k-1 and piece k of s costs.
GapTokens(s, k) ==
    IF k = 1 THEN 0
    ELSE IF s[k - 1].sep = "para" THEN 1
    ELSE s[k].lead

\* count_tokens: len(encoding.encode(text))
count_tokens(s) ==
    SumTo([k \in 1..Len(s) |-> s[k].tok + GapTokens(s, k)], Len(s))

\* Whether the split cuts the text after piece k: sentence-terminal
\* punctuation followed by whitespace, or a blank line.
Boundary(s, k) ==
    \/ k = Len(s)
    \/ s[k].sep = "para"
    \/ s[k].term /\ s[k].sep # ""

RECURSIVE SplitFrom(_, _, _)
\* The fragments of s from piece lo on, the fragment being read having
\* reached piece k.
SplitFrom(s, lo, k) ==
    IF k > Len(s) THEN <<>>
    ELSE IF Boundary(s, k)
         THEN <<strip(SubSeq(s, lo, k))>> \o SplitFrom(s, k + 1, k + 1)
         ELSE SplitFrom(s, lo, k + 1)

\* _split_into_sentences
split_into_sentences(s) == SplitFrom(s, 1, 1)

RECURSIVE OverlapWalk(_, _, _, _, _)
\* The backward walk of _get_overlap_text from sentence k down.
OverlapWalk(sentences, k, overlap_sentences, total_tokens, overlap_tokens) ==
    IF k = 0 THEN overlap_sentences
    ELSE LET sentence_tokens == count_tokens(sentences[k])
         IN  IF total_tokens + sentence_tokens > overlap_tokens
             THEN overlap_sentences
             ELSE OverlapWalk(sentences, k - 1,
                              <<sentences[k]>> \o overlap_sentences,
                              total_tokens + sentence_tokens, overlap_tokens)

\* The sentences _get_overlap_text keeps, before they are joined.
overlap_sentences_of(sentences, overlap_tokens) ==
    OverlapWalk(sentences, Len(sentences), <<>>, 0, overlap_tokens)

MutOverlapNoBudget(sentences, overlap_tokens) ==
    join(IF sentences = <<>> THEN <<>> ELSE <<sentences[Len(sentences)]>>)

\* _get_overlap_text
get_overlap_text(sentences, overlap_tokens) ==
    join(overlap_sentences_of(sentences, overlap_tokens))

\* The loop state of chunk_text before the first sentence.  seed is not
\* a variable of the code: it records the overlap text the current
\* passage was started with.
LoopInit ==
    [chunks |-> <<>>, current_chunk |-> <<>>, current_tokens |-> 0,
     chunk_index |-> 0, seed |-> <<>>]

\* A passage as chunk_text emits it.  parts and seed are not fields of
\* the code's dictionary: they record current_chunk and the overlap text
\* the passage was started with.
Emit(st, metadata) ==
    [text     |-> join(st.current_chunk),
     metadata |-> Put(metadata, "chunk_index", st.chunk_index),
     parts    |-> st.current_chunk,
     seed     |-> st.seed]

MutCloseKeepsIndex(st, metadata) ==
    LET overlap_text == get_overlap_text(st.current_chunk, overlap_size)
    IN  [chunks         |-> Append(st.chunks, Emit(st, metadata)),
         current_chunk  |-> IF overlap_text # <<>> THEN <<overlap_text>> ELSE <<>>,
         current_tokens |-> IF overlap_text # <<>> THEN count_tokens(overlap_text) ELSE 0,
         chunk_index    |-> st.chunk_index,
         seed           |-> overlap_text]

\* Finalize the current chunk and keep the overlap from its end.
CloseChunk(st, metadata) ==
    LET overlap_text == get_overlap_text(st.current_chunk, overlap_size)
    IN  [chunks         |-> Append(st.chunks, Emit(st, metadata)),
         current_chunk  |-> IF overlap_text # <<>> THEN <<overlap_text>> ELSE <<>>,
         current_tokens |-> IF overlap_text # <<>> THEN count_tokens(overlap_text) ELSE 0,
         chunk_index    |-> st.chunk_index + 1,
         seed           |-> overlap_text]

MutLoopDropOnClose(st, sentence, metadata) ==
    LET sentence_tokens == count_tokens(sentence)
    IN  IF st.current_tokens + sentence_tokens > max_chunk_size
           /\ st.current_chunk # <<>>
        THEN CloseChunk(st, metadata)
        ELSE [st EXCEPT !.current_chunk = Append(@, sentence),
                        !.current_tokens = @ + sentence_tokens]

\* One iteration of the for loop of chunk_text.
LoopBody(st, sentence, metadata) ==
    LET sentence_tokens == count_tokens(sentence)
        st1 == IF st.current_tokens + sentence_tokens > max_chunk_size
                  /\ st.current_chunk # <<>>
               THEN CloseChunk(st, metadata)
               ELSE st
    IN  [st1 EXCEPT !.current_chunk = Append(@, sentence),
                    !.current_tokens = @ + sentence_tokens]

RECURSIVE Loop(_, _, _, _)
\* The for loop of chunk_text from sentence k on.
Loop(st, sentences, k, metadata) ==
    IF k > Len(sentences) THEN st
    ELSE Loop(LoopBody(st, sentences[k], metadata), sentences, k + 1, metadata)

\* chunk_text
chunk_text(text, metadata) ==
    IF count_tokens(text) <= max_chunk_size
    THEN << [text     |-> text,
             metadata |-> Put(Put(metadata, "chunk_index", 0), "total_chunks", 1),
             parts    |-> <<text>>,
             seed     |-> <<>>] >>
    ELSE LET sentences == split_into_sentences(text)
             st == Loop(LoopInit, sentences, 1, metadata)
             chunks == IF st.current_chunk # <<>>
                       THEN Append(st.chunks, Emit(st, metadata))
                       ELSE st.chunks
         IN  [i \in 1..Len(chunks) |->
                [chunks[i] EXCEPT
                    !.metadata = Put(@, "total_chunks", Len(chunks))]]

(* ------------------------------------------------------------------ *)
(* MetadataExtractor: chunk identity                                   *)
(*                                                                     *)
(* A label (a file name, a section label, an id) is a sequence of      *)
(* symbols; a symbol is one character or a word without space, colon,  *)
(* underscore or dot.                                                  *)
(* ------------------------------------------------------------------ *)

\* str.replace(old, new) for a one-character old
Replace(l, old, new) == [k \in 1..Len(l) |-> IF l[k] = old THEN new ELSE l[k]]

\* The last position of symbol c in l, 0 when there is none: str.rfind
RFind(l, c) ==
    IF \E k \in 1..Len(l) : l[k] = c
    THEN CHOOSE k \in 1..Len(l) : l[k] = c /\ \A j \in k + 1..Len(l) : l[j] # c
    ELSE 0

\* Whether the name has a suffix: a dot that is neither its first nor
\* its last character.
HasSuffix(name) == 1 < RFind(name, ".") /\ RFind(name, ".") < Len(name)

\* Path(filename).stem
Stem(name) ==
    IF HasSuffix(name) THEN SubSeq(name, 1, RFind(name, ".") - 1) ELSE name

\* str.lower() of a one-word label
Lower(w) == IF w = "PDF" THEN "pdf" ELSE w

\* Path(file_path).suffix.lstrip('.').lower()
FileType(name) ==
    IF HasSuffix(name) /\ RFind(name, ".") = Len(name) - 1
    THEN Lower(name[Len(name)])
    ELSE ""

MutIdWithoutSection(filename, section, chunk_index) ==
    Replace(Stem(filename), " ", "_")
        \o <<"_", "_", "chunk", "_", ToString(chunk_index)>>

\* generate_chunk_id
generate_chunk_id(filename, section, chunk_index) ==
    LET clean_filename == Replace(Stem(filename), " ", "_")
        clean_section == Replace(Replace(section, " ", "_"), ":", "_")
    IN  clean_filename \o <<"_", "_">> \o clean_section
            \o <<"_", "_", "chunk", "_", ToString(chunk_index)>>

(* ------------------------------------------------------------------ *)
(* Inputs of the chunker                                               *)
(* ------------------------------------------------------------------ *)

\* What is chosen for one piece: its tokens, the tokens a space in front
\* of it adds, and what follows it: "none" a space inside a sentence,
\* "sent" terminal punctuation and a space, "para" a blank line.
PieceChoices ==
    { c \in [tok : TokSizes, lead : {0, 1}, gap : {"none", "sent", "para"}] :
        c.lead = 1 => c.tok \in DigitLedSizes }

\* The first piece follows nothing, the last piece is followed by
\* nothing, and no space stands in front of a piece after a blank line.
WellFormedChoice(c) ==
    /\ c # <<>> => c[1].lead = 0 /\ c[Len(c)].gap = "none"
    /\ \A k \in 1..Len(c) - 1 : c[k].gap = "para" => c[k + 1].lead = 0

\* The text the choices describe.
MkText(c) ==
    [k \in 1..Len(c) |->
        [id   |-> k,
         tok  |-> c[k].tok,
         lead |-> c[k].lead,
         term |-> c[k].gap = "sent",
         sep  |-> IF k = Len(c) THEN ""
                  ELSE IF c[k].gap = "para" THEN "para" ELSE "sp"]]

Texts ==
    { MkText(c) : c \in { d \in UNION { [1..n -> PieceChoices] : n \in 0..MaxPieces }
                            : WellFormedChoice(d) } }

(* ------------------------------------------------------------------ *)
(* TextChunker.chunk_document and MetadataExtractor.enrich             *)
(* ------------------------------------------------------------------ *)

\* The element of a one-element set: S = {e} names the value of e once.
The(S) == CHOOSE x \in S : TRUE

\* dict.get(k, default)
Get(m, k, default) == IF k \in DOMAIN m THEN m[k] ELSE default

\* The passages of one parsed unit: the unit's section is put into its
\* metadata and the text is chunked with it.
ChunkUnit(parsed_chunk) ==
    LET text == Get(parsed_chunk, "text", <<>>)
        section == Get(parsed_chunk, "section", <<"Unknown">>)
        metadata == Put(Get(parsed_chunk, "metadata", <<>>), "section", section)
    IN  chunk_text(text, metadata)

MutChunkDocumentOneNumbering(parsed_chunks) ==
    LET all == Flatten([u \in 1..Len(parsed_chunks) |-> ChunkUnit(parsed_chunks[u])])
    IN  [i \in 1..Len(all) |->
            [all[i] EXCEPT !.metadata = Put(@, "chunk_index", i - 1)]]

\* chunk_document
chunk_document(parsed_chunks) ==
    Flatten([u \in 1..Len(parsed_chunks) |-> ChunkUnit(parsed_chunks[u])])

\* upload_timestamp = None.  Timestamps are natural numbers.
NoTimestamp == 0 - 1

\* enrich_chunk_metadata, called when datetime.now() is now.
enrich_chunk_metadata(metadata, filename, file_type, upload_timestamp, now) ==
    LET enriched == Put(Put(Put(metadata, "filename", filename),
                            "file_type", file_type),
                        "upload_timestamp",
                        IF upload_timestamp = NoTimestamp THEN now
                        ELSE upload_timestamp)
    IN  IF "section" \notin DOMAIN enriched
        THEN Put(enriched, "section", <<"Unknown">>)
        ELSE enriched

(* ------------------------------------------------------------------ *)
(* ChromaDBClient.add_chunks                                           *)
(* ------------------------------------------------------------------ *)

\* The vector the embedding model gives a text.
Embedding(text) == [model |-> "text-embedding-3-small", of |-> PieceIdsOf(text)]

\* The vector the collection's own embedding function gives a text.
StoreEmbedding(text) == [model |-> "collection", of |-> PieceIdsOf(text)]

\* collection.add of the vector store.  The call changes nothing when it
\* raises.  It raises when the store fails and when an id is given twice
\* in the call.  An id the collection holds already is left as it is
\* stored (policy "ignore", the behaviour of the store versions that have
\* PersistentClient) or makes the call raise (policy "raise").
collection_add(st, documents, metadatas, ids, embeddings, policy, fails) ==
    LET given == {ids[k] : k \in 1..Len(ids)}
        first(id) == CHOOSE k \in 1..Len(ids) :
                        ids[k] = id /\ \A j \in 1..k - 1 : ids[j] # id
    IN  IF fails
        THEN [raises |-> TRUE, error |-> "store failure", store |-> st]
        ELSE IF Cardinality(given) # Len(ids)
        THEN [raises |-> TRUE, error |-> "duplicate ids", store |-> st]
        ELSE IF policy = "raise" /\ given \cap DOMAIN st # {}
        THEN [raises |-> TRUE, error |-> "id already exists", store |-> st]
        ELSE [raises |-> FALSE, error |-> "",
              store  |-> [id \in (DOMAIN st) \cup given |->
                            IF id \in DOMAIN st THEN st[id]
                            ELSE [document  |-> documents[first(id)],
                                  metadata  |-> metadatas[first(id)],
                                  embedding |-> embeddings[first(id)]]]]

\* add_chunks
add_chunks(st, chunks, metadatas, ids, embeddings, policy, fails) ==
    IF embeddings # <<>>
    THEN collection_add(st, chunks, metadatas, ids, embeddings, policy, fails)
    ELSE collection_add(st, chunks, metadatas, ids,
                        [k \in 1..Len(chunks) |-> StoreEmbedding(chunks[k])],
                        policy, fails)

(* ------------------------------------------------------------------ *)
(* The documents on disk                                               *)
(* ------------------------------------------------------------------ *)

LongText ==
    MkText(<< [tok |-> 550, lead |-> 0, gap |-> "sent"],
              [tok |-> 50, lead |-> 0, gap |-> "sent"],
              [tok |-> 600, lead |-> 0, gap |-> "none"] >>)

ShortText == MkText(<< [tok |-> 50, lead |-> 0, gap |-> "none"] >>)

OtherText == MkText(<< [tok |-> 25, lead |-> 0, gap |-> "none"] >>)

\* A page as PDFParser.parse gives it.
Page(name, n, text) ==
    [text     |-> text,
     section  |-> <<"Page", " ", ToString(n)>>,
     metadata |-> [filename |-> name, page_number |-> n, content_type |-> "page"]]

\* A paragraph of a Word document under the heading current_section.
Paragraph(name, n, text, current_section) ==
    [text     |-> text,
     section  |-> current_section,
     metadata |-> [filename |-> name, paragraph_number |-> n,
                   content_type |-> "paragraph",
                   parent_section |-> current_section]]

GoodPdf == <<"good", ".", "pdf">>

CorruptDocx == <<"corrupt", ".", "docx">>

EmptyDocx == <<"empty", ".", "docx">>

NotesTxt == <<"notes", ".", "txt">>

\* A Word document with two paragraphs under one heading and paragraphs
\* under headings that differ by a space against an underscore.
ReportDocx == <<"report", ".", "docx">>

QSpacePdf == <<"q", " ", "1", ".", "pdf">>

QUnderPdf == <<"q", "_", "1", ".", "PDF">>

\* The files ingest_document is called on.
Files == {GoodPdf, CorruptDocx, EmptyDocx, NotesTxt, QSpacePdf, QUnderPdf, ReportDocx}

\* Path(file_path).name
PathName(file_path) == file_path

\* parser.parse(file_path): the units of the file, or an exception.
Parse(file_path) ==
    CASE file_path = GoodPdf ->
            [raises |-> FALSE,
             units  |-> << Page(GoodPdf, 1, LongText), Page(GoodPdf, 2, ShortText) >>]
      [] file_path = QSpacePdf ->
            [raises |-> FALSE, units |-> << Page(QSpacePdf, 1, ShortText) >>]
      [] file_path = QUnderPdf ->
            [raises |-> FALSE, units |-> << Page(QUnderPdf, 1, OtherText) >>]
      [] file_path = ReportDocx ->
            [raises |-> FALSE,
             units  |-> << Paragraph(ReportDocx, 1, ShortText, <<"Intro">>),
                           Paragraph(ReportDocx, 2, OtherText, <<"Intro">>),
                           Paragraph(ReportDocx, 3, ShortText, <<"Page", " ", "1">>),
                           Paragraph(ReportDocx, 4, OtherText, <<"Page", "_", "1">>) >>]
      [] file_path = EmptyDocx ->
            [raises |-> FALSE, units |-> <<>>]
      [] OTHER ->
            [raises |-> TRUE, units |-> <<>>]

(* ------------------------------------------------------------------ *)
(* DocumentIngestionTool                                               *)
(* ------------------------------------------------------------------ *)

\* The keys of self.parsers
Parsers == {"pdf", "pptx", "docx", "xlsx"}

\* What may go wrong in one call besides what the file itself decides:
\* the parser, the tokenizer, the stat of the file, the embedding call
\* or the store raises.
Faults == {"none", "parse", "chunk", "stat", "embed", "add"}

\* _generate_embeddings
generate_embeddings(texts) == [k \in 1..Len(texts) |-> Embedding(texts[k])]

MutRaisedAfterRetry(error, calls, st, now) ==
    [exc |-> TRUE, error |-> error, result |-> [success |-> FALSE],
     store |-> st, clock |-> now, calls |-> Append(calls, calls[Len(calls)]),
     handed |-> <<>>]

\* An exception raised inside the try block.
Raised(error, calls, st, now) ==
    [exc |-> TRUE, error |-> error, result |-> [success |-> FALSE],
     store |-> st, clock |-> now, calls |-> calls, handed |-> <<>>]

\* A return inside the try block.
Returned(result, calls, st, now, handed) ==
    [exc |-> FALSE, error |-> "", result |-> result,
     store |-> st, clock |-> now, calls |-> calls, handed |-> handed]

MutIdIndexInUnit(chunked_documents, k) ==
    chunked_documents[k].metadata.chunk_index

\* The index generate_chunk_id is given for the passage at position k
\* (from 1) of the document's passages: enumerate(chunked_documents).
IdIndex(chunked_documents, k) == k - 1

\* The try block of ingest_document.
IngestTry(file_path, fault, st, now, policy) ==
    LET name == PathName(file_path)
        file_type == FileType(name)
        parsed == Parse(file_path)
    IN  IF fault = "parse" \/ parsed.raises
        THEN Raised("parse error", <<"parse">>, st, now)
        ELSE IF parsed.units = <<>>
        THEN Returned([success |-> FALSE,
                       error   |-> "No content extracted from document",
                       file    |-> name],
                      <<"parse">>, st, now, <<>>)
        ELSE IF fault = "chunk"
        THEN Raised("tokenizer error", <<"parse">>, st, now)
        ELSE IF fault = "stat"
        THEN Raised("stat error", <<"parse">>, st, now)
        ELSE
        LET upload_timestamp == now
            Enriched(chunks) ==
                [k \in 1..Len(chunks) |->
                    [text     |-> chunks[k].text,
                     metadata |-> enrich_chunk_metadata(chunks[k].metadata, name,
                                      file_type, upload_timestamp, now)]]
            Store(chunked_documents) ==
                LET texts == [k \in 1..Len(chunked_documents) |->
                                chunked_documents[k].text]
                    embeddings == generate_embeddings(texts)
                    ids == [k \in 1..Len(chunked_documents) |->
                              generate_chunk_id(name,
                                  Get(chunked_documents[k].metadata, "section", <<>>),
                                  IdIndex(chunked_documents, k))]
                    metadatas == [k \in 1..Len(chunked_documents) |->
                                    chunked_documents[k].metadata]
                    handed == [k \in 1..Len(chunked_documents) |->
                                 [id        |-> ids[k],
                                  document  |-> texts[k],
                                  metadata  |-> metadatas[k],
                                  embedding |-> embeddings[k]]]
                    Result(added) ==
                        IF added.raises
                        THEN [Raised(added.error, <<"parse", "embed", "add">>,
                                     st, now + 1)
                                 EXCEPT !.handed = handed]
                        ELSE Returned(
                                [success          |-> TRUE,
                                 file             |-> name,
                                 file_type        |-> file_type,
                                 chunks_created   |-> Len(chunked_documents),
                                 total_tokens     |->
                                     SumTo([k \in 1..Len(texts) |->
                                              count_tokens(texts[k])], Len(texts)),
                                 upload_timestamp |-> upload_timestamp],
                                <<"parse", "embed", "add">>, added.store,
                                now + 1, handed)
                IN  IF fault = "embed"
                    THEN Raised("embedding error", <<"parse", "embed">>, st, now + 1)
                    ELSE The({ Result(added) :
                                 added \in {add_chunks(st, texts, metadatas, ids,
                                                       embeddings, policy,
                                                       fault = "add")} })
        IN  The({ Store(chunked_documents) :
                    chunked_documents \in
                        { Enriched(chunks) :
                            chunks \in {chunk_document(parsed.units)} } })

MutNoExcept(file_path, t) ==
    [raised |-> t.exc, exc |-> t.exc, result |-> t.result, store |-> t.store,
     clock |-> t.clock, calls |-> t.calls, handed |-> t.handed]

\* The except clause of ingest_document: what the call gives its caller
\* when its try block ended as t.
Except(file_path, t) ==
    [raised |-> FALSE,
     exc    |-> t.exc,
     result |-> IF t.exc
                THEN [success |-> FALSE, error |-> t.error,
                      file |-> PathName(file_path)]
                ELSE t.result,
     store  |-> t.store,
     clock  |-> t.clock,
     calls  |-> t.calls,
     handed |-> t.handed]

\* ingest_document
ingest_document(file_path, fault, st, now, policy) ==
    IF FileType(PathName(file_path)) \notin Parsers
    THEN [raised |-> FALSE,
          exc    |-> FALSE,
          result |-> [success |-> FALSE,
                      error   |-> "Unsupported file type",
                      file    |-> PathName(file_path)],
          store  |-> st,
          clock  |-> now,
          calls  |-> <<>>,
          handed |-> <<>>]
    ELSE The({ Except(file_path, t) :
                 t \in {IngestTry(file_path, fault, st, now, policy)} })

\* The results with success, and those without.
Successful(results) == SelectSeq(results, LAMBDA r : r.success)

Failed(results) == SelectSeq(results, LAMBDA r : ~r.success)

MutAggregateCountsSuccessful(file_paths, results) ==
    [total_files  |-> Len(Successful(results)),
     successful   |-> Len(Successful(results)),
     failed       |-> Len(Failed(results)),
     results      |-> results,
     total_chunks |-> SumTo([k \in 1..Len(Successful(results)) |->
                         Get(Successful(results)[k], "chunks_created", 0)],
                         Len(Successful(results)))]

\* The aggregate ingest_multiple_documents returns.
Aggregate(file_paths, results) ==
    [total_files  |-> Len(file_paths),
     successful   |-> Len(Successful(results)),
     failed       |-> Len(Failed(results)),
     results      |-> results,
     total_chunks |-> SumTo([k \in 1..Len(Successful(results)) |->
                         Get(Successful(results)[k], "chunks_created", 0)],
                         Len(Successful(results)))]

MutStopAtFailure(b, result) ==
    IF result.success THEN b.i + 1 ELSE Len(b.paths) + 1

\* The position of the for loop of ingest_multiple_documents after the
\* file at b.i gave result.
NextFile(b, result) == b.i + 1

(* ------------------------------------------------------------------ *)
(* The ingestion tool and the store as a state machine                 *)
(* ------------------------------------------------------------------ *)

\* ingest_document calls explored.
MaxCalls == 2

\* Longest file_paths given to ingest_multiple_documents.
MaxBatch == 2

NoCall ==
    [kind |-> "none", file |-> <<>>, raised |-> FALSE, exc |-> FALSE,
     result |-> [success |-> FALSE], calls |-> <<>>, handed |-> <<>>,
     before |-> <<>>]

NoBatch ==
    [pc |-> "idle", paths |-> <<>>, i |-> 0, results |-> <<>>, visited |-> <<>>,
     out |-> Aggregate(<<>>, <<>>)]

\* The retrieval tool has not been called.
RetrievalIdle == rcall = [kind |-> "none"]

\* The metadata query tool has not been called.
InfoIdle == info = [kind |-> "none"]

\* No MetadataExtractor function has been called.
MetaIdle == mcall = [kind |-> "none"]

\* The ChromaDBClient is not in use.
ClientIdle == client = [kind |-> "none"]

\* No TextChunker has been constructed by the model.
ChunkerIdle == chunker = [kind |-> "none"]

\* No chunk_document call is modelled.
DocIdle == doc = [kind |-> "none"]

\* No concurrent callers are modelled.
RaceIdle == race = [kind |-> "none"]

ToolsIdle ==
    /\ RetrievalIdle /\ InfoIdle /\ MetaIdle /\ ClientIdle
    /\ ChunkerIdle /\ DocIdle /\ RaceIdle

\* generate_chunk_id not in use
IdIdle ==
    /\ idA = <<>>
    /\ idB = <<>>
    /\ outA = <<>>
    /\ outB = <<>>
    /\ ipc = "idle"

\* The store empty and no ingestion made
IngestIdle ==
    /\ store = <<>>
    /\ dupPolicy = "ignore"
    /\ clock = 0
    /\ ncalls = 0
    /\ call = NoCall
    /\ batch = NoBatch

\* chunk_text not in use
ChunkIdle ==
    /\ ctext = <<>>
    /\ cmeta = <<>>
    /\ cout = <<>>
    /\ cpc = "idle"

Init ==
    /\ store = <<>>
    /\ dupPolicy \in {"ignore", "raise"}
    /\ clock = 0
    /\ ncalls = 0
    /\ call = NoCall
    /\ batch = NoBatch
    /\ ChunkIdle
    /\ IdIdle
    /\ ToolsIdle

\* What one ingest_document call does to the store, the clock and the
\* record of the last call.
DoIngest(file_path, fault, kind) ==
    \E r \in {ingest_document(file_path, fault, store, clock, dupPolicy)} :
        /\ store' = r.store
        /\ clock' = r.clock
        /\ ncalls' = ncalls + 1
        /\ call' = [kind |-> kind, file |-> file_path,
                    raised |-> r.raised, exc |-> r.exc, result |-> r.result, calls |-> r.calls,
                    handed |-> r.handed, before |-> store]

\* A caller calls ingest_document(file_path).
IngestDocument ==
    /\ batch.pc # "loop"
    /\ ncalls < MaxCalls
    /\ \E file_path \in Files, fault \in Faults :
           DoIngest(file_path, fault, "single")
    /\ batch' = NoBatch
    /\ UNCHANGED dupPolicy
    /\ UNCHANGED <<cvars, ivars, tvars, svars>>

\* A caller calls ingest_multiple_documents(file_paths).
BatchBegin ==
    /\ batch.pc # "loop"
    /\ \E n \in 0..MaxBatch :
          /\ ncalls + n <= MaxCalls
          /\ \E file_paths \in [1..n -> Files] :
                batch' = [pc |-> "loop", paths |-> file_paths, i |-> 1,
                          results |-> <<>>, visited |-> <<>>,
                          out |-> Aggregate(<<>>, <<>>)]
    /\ UNCHANGED <<store, dupPolicy, clock, ncalls, call>>
    /\ UNCHANGED <<cvars, ivars, tvars, svars>>

\* One iteration of the for loop: ingest_document on the next file.
BatchStep ==
    /\ batch.pc = "loop"
    /\ batch.i <= Len(batch.paths)
    /\ \E fault \in Faults :
          /\ DoIngest(batch.paths[batch.i], fault, "batch")
          /\ batch' = [batch EXCEPT
                          !.results = Append(@, call'.result),
                          !.visited = Append(@, batch.paths[batch.i]),
                          !.i = NextFile(batch, call'.result)]
    /\ UNCHANGED dupPolicy
    /\ UNCHANGED <<cvars, ivars, tvars, svars>>

\* The loop is over: the statistics are aggregated and returned.
BatchEnd ==
    /\ batch.pc = "loop"
    /\ batch.i > Len(batch.paths)
    /\ batch' = [batch EXCEPT !.pc = "done",
                              !.out = Aggregate(batch.paths, batch.results)]
    /\ UNCHANGED <<store, dupPolicy, clock, ncalls, call>>
    /\ UNCHANGED <<cvars, ivars, tvars, svars>>

Next == IngestDocument \/ BatchBegin \/ BatchStep \/ BatchEnd

Spec == Init /\ [][Next]_vars

(* ------------------------------------------------------------------ *)
(* Properties of ingest_document and ingest_multiple_documents         *)
(*                                                                     *)
(* call records the last ingest_document call: the file, whether the   *)
(* call raised to its caller, whether its try block raised (exc), the  *)
(* result it returned, the external calls it made (calls), the         *)
(* passages it gave to add_chunks (handed) and the store before it.    *)
(* batch holds the locals of ingest_multiple_documents; visited lists  *)
(* the files it has called ingest_document on.                         *)
(* ------------------------------------------------------------------ *)

\* The last call gave its passages to the store.
ReachedStore == call.kind # "none" /\ call.handed # <<>>

\* The store itself failed in the last call.
StoreFailed == ~call.result.success /\ call.result.error = "store failure"

\* Passage h as the store keeps a passage.
Stored(h) == [document |-> h.document, metadata |-> h.metadata,
              embedding |-> h.embedding]

\* The last call ingested a file again that the store held unchanged:
\* every passage of the file was stored under its id by an earlier
\* ingestion of the same file.
Reingested ==
    /\ ReachedStore
    /\ \A k \in 1..Len(call.handed) :
          LET h == call.handed[k]
          IN  /\ h.id \in DOMAIN call.before
              /\ call.before[h.id].document = h.document
              /\ call.before[h.id].metadata.filename = PathName(call.file)

\* C5 (as claimed): ingesting an unchanged file again leaves the same ids
\* and the same passage count, and the second ingestion succeeds by
\* overwriting every passage under its id.
C5_ReingestUpserts ==
    Reingested /\ ~StoreFailed =>
        /\ DOMAIN store = DOMAIN call.before
        /\ call.result.success
        /\ \A k \in 1..Len(call.handed) :
               store[call.handed[k].id] = Stored(call.handed[k])

\* C6 (as claimed): the id of every passage given to the store is
\* generate_chunk_id of the file name, the passage's section and the
\* passage's chunk_index within its own unit.
C6_IdFromChunkIndex ==
    ReachedStore =>
        \A k \in 1..Len(call.handed) :
            call.handed[k].id =
                generate_chunk_id(PathName(call.file),
                                  call.handed[k].metadata.section,
                                  call.handed[k].metadata.chunk_index)

\* C8 (as claimed): a call that returns success false left the store as
\* it was; a call that returns success true has put all chunks_created
\* passages of the file into the store.
C8_AllOrNothing ==
    call.kind # "none" =>
        /\ ~call.result.success => store = call.before
        /\ call.result.success =>
              /\ Len(call.handed) = call.result.chunks_created
              /\ \A k \in 1..Len(call.handed) :
                    LET h == call.handed[k]
                    IN  /\ h.id \in DOMAIN store
                        /\ store[h.id].document = h.document
                        /\ store[h.id].metadata.filename = PathName(call.file)

IsPrefix(a, b) == Len(a) <= Len(b) /\ a = SubSeq(b, 1, Len(a))

\* C9: ingest_document never raises to its caller.  An unsupported
\* extension gives {success: false, error, file} with no parser,
\* embedding or store call; an empty extraction gives an error result
\* with no embedding or store call; an exception in the try block gives
\* {success: false, error, file}; a failed call leaves the store alone.
C9_NeverRaises ==
    call.kind # "none" =>
        LET name == PathName(call.file)
            r == call.result
            failure == /\ ~r.success
                       /\ DOMAIN r = {"success", "error", "file"}
                       /\ r.file = name
        IN  /\ ~call.raised
            /\ IsPrefix(call.calls, <<"parse", "embed", "add">>)
            /\ FileType(name) \notin Parsers =>
                  /\ failure
                  /\ r.error = "Unsupported file type"
                  /\ call.calls = <<>>
            /\ /\ FileType(name) \in Parsers
               /\ ~call.exc
               /\ ~Parse(call.file).raises
               /\ Parse(call.file).units = <<>>
               => /\ failure
                  /\ r.error = "No content extracted from document"
                  /\ call.calls = <<"parse">>
            /\ call.exc => failure
            /\ ~r.success => store = call.before

\* C9 witness: the store raised in a call on a supported file with
\* passages, and the call returned an error result.
C9_Witness ==
    /\ call.kind # "none"
    /\ call.exc
    /\ call.calls = <<"parse", "embed", "add">>
    /\ ~call.raised
    /\ ~call.result.success

\* The ids under which file name's passages are stored.
IdsOf(name) == {id \in DOMAIN store : store[id].metadata.filename = name}

\* C10: ingest_multiple_documents calls ingest_document on every file of
\* file_paths once, in input order, whatever the results; no call
\* removes or alters a passage the store held before it; for
\* [good.pdf, corrupt.docx] with good.pdf ingested, successful = 1,
\* failed = 1 and good.pdf's passages are in the store.
C10_FaultIsolation ==
    /\ batch.pc # "idle" =>
          /\ IsPrefix(batch.visited, batch.paths)
          /\ Len(batch.visited) = Len(batch.results)
          /\ batch.pc = "loop" => Len(batch.visited) = batch.i - 1
          /\ \A k \in 1..Len(batch.results) :
                batch.results[k].file = PathName(batch.paths[k])
    /\ batch.pc = "done" =>
          /\ batch.visited = batch.paths
          /\ Len(batch.out.results) = Len(batch.paths)
          /\ batch.out.successful + batch.out.failed = Len(batch.paths)
    /\ call.kind = "batch" =>
          \A id \in DOMAIN call.before :
              id \in DOMAIN store /\ store[id] = call.before[id]
    /\ /\ batch.pc = "done"
       /\ batch.paths = <<GoodPdf, CorruptDocx>>
       /\ batch.results[1].success
       => /\ batch.out.successful = 1
          /\ batch.out.failed = 1
          /\ ~batch.results[2].success
          /\ Cardinality(IdsOf(GoodPdf)) = batch.results[1].chunks_created

\* C10 witness: the batch [corrupt.docx, good.pdf] is done, the first
\* file failed and the second was ingested after it.
C10_Witness ==
    /\ batch.pc = "done"
    /\ batch.paths = <<CorruptDocx, GoodPdf>>
    /\ ~batch.results[1].success
    /\ batch.results[2].success
    /\ IdsOf(GoodPdf) # {}

(* ------------------------------------------------------------------ *)
(* The chunker applied to one text                                     *)
(* ------------------------------------------------------------------ *)

InitChunk ==
    /\ ctext \in Texts
    /\ cmeta = [section |-> <<"Page", " ", "1">>]
    /\ cout = <<>>
    /\ cpc = "ready"
    /\ IdIdle
    /\ IngestIdle
    /\ ToolsIdle

\* chunk_text(ctext, cmeta)
ChunkText ==
    /\ cpc = "ready"
    /\ cout' = chunk_text(ctext, cmeta)
    /\ cpc' = "done"
    /\ UNCHANGED <<ctext, cmeta>>
    /\ UNCHANGED <<ivars, gvars, tvars, svars>>

NextChunk == ChunkText

SpecChunk == InitChunk /\ [][NextChunk]_vars

(* ------------------------------------------------------------------ *)
(* Properties of chunk_text                                            *)
(* ------------------------------------------------------------------ *)

PieceIds(s) == PieceIdsOf(s)

\* Whether string t ends with string s, piece for piece.
IsTailOf(s, t) ==
    /\ Len(s) <= Len(t)
    /\ PieceIds(s) = PieceIds(SubSeq(t, Len(t) - Len(s) + 1, Len(t)))

\* Whether string t begins with string s, piece for piece.
IsHeadOf(s, t) ==
    /\ Len(s) <= Len(t)
    /\ PieceIds(s) = PieceIds(SubSeq(t, 1, Len(s)))

\* The sentence fragments of the chunked text.
Fragments == split_into_sentences(ctext)

\* Whether fragment f lies in passage p.
FragmentIn(f, p) ==
    \A k \in 1..Len(f) : \E j \in 1..Len(p.text) : p.text[j].id = f[k].id

\* The token counts of the elements of l, each counted on its own.
CountedOneByOne(l) == SumTo([k \in 1..Len(l) |-> count_tokens(l[k])], Len(l))

\* Whether the overlap text of passage i + 1 is the join of the last
\* elements of the closed passage i, in their order.
SeedIsTrailingPartsOf(seed, p) ==
    \E j \in 1..Len(p.parts) + 1 : seed = join(SubSeq(p.parts, j, Len(p.parts)))

\* The elements of passage p that are not its overlap text.
OwnParts(p) == IF p.seed = <<>> THEN p.parts ELSE Tail(p.parts)

SingleParagraph(s) == \A k \in 1..Len(s) : s[k].sep # "para"

\* C1 (as claimed): every passage none of whose sentence fragments has
\* more than max_chunk_size tokens has at most max_chunk_size tokens,
\* passages that begin with an overlap tail included.
C1_SizeBound ==
    cpc = "done" =>
        \A i \in 1..Len(cout) :
            (\A n \in 1..Len(Fragments) :
                FragmentIn(Fragments[n], cout[i])
                    => count_tokens(Fragments[n]) <= max_chunk_size)
            => count_tokens(cout[i].text) <= max_chunk_size

\* C2 (as claimed): the overlap tail that seeds passage i+1 is made of
\* the trailing fragments of passage i in their order, has at most
\* overlap_size tokens, and is empty when the last fragment of passage i
\* alone exceeds overlap_size.
C2_OverlapBound ==
    cpc = "done" =>
        \A i \in 1..Len(cout) - 1 :
            LET p == cout[i]
                seed == cout[i + 1].seed
            IN  /\ SeedIsTrailingPartsOf(seed, p)
                /\ IsTailOf(seed, p.text)
                /\ IsHeadOf(seed, cout[i + 1].text)
                /\ count_tokens(seed) <= overlap_size
                /\ count_tokens(p.parts[Len(p.parts)]) > overlap_size
                       => seed = <<>>

\* C3: for a text of more than max_chunk_size tokens, the passages'
\* fragments without the overlap tails are exactly the fragments of the
\* split, in their order, and together they are every piece of the text
\* once; every fragment lies in some passage.
C3_Coverage ==
    cpc = "done" /\ count_tokens(ctext) > max_chunk_size =>
        LET own == Flatten([i \in 1..Len(cout) |-> OwnParts(cout[i])])
        IN  /\ own = Fragments
            /\ PieceIds(Flatten(own)) = [k \in 1..Len(ctext) |-> k]
            /\ \A n \in 1..Len(Fragments) :
                   \E i \in 1..Len(cout) : FragmentIn(Fragments[n], cout[i])
            /\ \A i \in 1..Len(cout) :
                   /\ cout[i].text = join(cout[i].parts)
                   /\ cout[i].seed # <<>> => Head(cout[i].parts) = cout[i].seed

\* C3 witness: a text split into four fragments gave three passages,
\* the third begun with an overlap tail that holds the overlap tail of
\* the second.
C3_Witness ==
    /\ cpc = "done"
    /\ count_tokens(ctext) > max_chunk_size
    /\ Len(Fragments) = 4
    /\ Len(cout) = 3
    /\ cout[2].seed # <<>>
    /\ Len(cout[3].seed) > Len(cout[2].seed)

\* The case of C4: a single-paragraph text of 1200 tokens was chunked.
C4_Case ==
    /\ cpc = "done"
    /\ count_tokens(ctext) = 1200
    /\ SingleParagraph(ctext)

MaxIndex == 1

\* File names, as Path(file_path).name gives them.
FileNames ==
    { <<"report", ".", "pdf">>,
      <<"report", ".", "docx">>,
      <<"notes", ".", "pdf">>,
      <<"q", " ", "1", ".", "pdf">>,
      <<"q", "_", "1", ".", "pdf">>,
      <<"a", "_", "_", "b", ".", "pdf">>,
      <<"a", ".", "pdf">>,
      <<"a", ".", "b", ".", "pdf">> }

\* Section labels, as the parsers give them.
SectionLabels ==
    { <<"Page", " ", "1">>,
      <<"Page", " ", "2">>,
      <<"Page", "_", "1">>,
      <<"Sheet", ":", " ", "Q">>,
      <<"Sheet", " ", " ", "Q">>,
      <<"Intro">>,
      <<"Summary">>,
      <<"b", "_", "_", "Intro">>,
      <<>> }

Triples == [filename : FileNames, section : SectionLabels, chunk_index : 0..MaxIndex]

InitId ==
    /\ idA \in Triples
    /\ idB \in Triples
    /\ outA = <<>>
    /\ outB = <<>>
    /\ ipc = "ready"
    /\ ChunkIdle
    /\ IngestIdle
    /\ ToolsIdle

\* generate_chunk_id on each of the two triples
GenerateIds ==
    /\ ipc = "ready"
    /\ outA' = generate_chunk_id(idA.filename, idA.section, idA.chunk_index)
    /\ outB' = generate_chunk_id(idB.filename, idB.section, idB.chunk_index)
    /\ ipc' = "done"
    /\ UNCHANGED <<idA, idB>>
    /\ UNCHANGED <<cvars, gvars, tvars, svars>>

NextId == GenerateIds

SpecId == InitId /\ [][NextId]_vars

\* Whether a label has neither space nor underscore.
Plain(l) == \A k \in 1..Len(l) : l[k] \notin {" ", "_"}

\* A section label with its spaces and colons read as underscores.
UpToSeparators(l) == [k \in 1..Len(l) |-> IF l[k] \in {" ", ":"} THEN "_" ELSE l[k]]

MutCitationAllHints(metadata) ==
    LET filename == Get(metadata, "filename", <<"Unknown", " ", "file">>)
        section  == Get(metadata, "section", <<"Unknown", " ", "section">>)
    IN  IF "sheet_name" \in DOMAIN metadata
        THEN filename \o <<",", " ", "Sheet", ":", " ">> \o metadata["sheet_name"]
        ELSE IF "slide_number" \in DOMAIN metadata
        THEN filename \o <<",", " ", "Slide", " ", ToString(metadata["slide_number"])>>
        ELSE IF "page_number" \in DOMAIN metadata
        THEN filename \o <<",", " ", "Page", " ", ToString(metadata["page_number"])>>
        ELSE filename \o <<",", " ">> \o section

\* create_citation: the file name, ", " and one location.
create_citation(metadata) ==
    LET filename == Get(metadata, "filename", <<"Unknown", " ", "file">>)
        section  == Get(metadata, "section", <<"Unknown", " ", "section">>)
    IN  IF "page_number" \in DOMAIN metadata
        THEN filename \o <<",", " ", "Page", " ", ToString(metadata["page_number"])>>
        ELSE IF "slide_number" \in DOMAIN metadata
        THEN filename \o <<",", " ", "Slide", " ", ToString(metadata["slide_number"])>>
        ELSE IF "sheet_name" \in DOMAIN metadata
        THEN filename \o <<",", " ", "Sheet", ":", " ">> \o metadata["sheet_name"]
        ELSE filename \o <<",", " ">> \o section

(* ------------------------------------------------------------------ *)
(* The collection's query (external): the stored passages that match   *)
(* where, nearest first, at most n_results of them.  order lists the    *)
(* ids of the collection by ascending distance to the query vector;    *)
(* the distance reported for a passage is its place in that order.     *)
(* A where of None matches every passage; a where mapping matches the  *)
(* passages whose metadata has every field of it with an equal value.  *)
(* The query raises when the store fails or n_results is not positive. *)
(* ------------------------------------------------------------------ *)

None == [None |-> TRUE]

Matches(metadata, where) ==
    \/ where = None
    \/ \A f \in DOMAIN where : f \in DOMAIN metadata /\ metadata[f] = where[f]

\* The first n elements of a sequence.
Take(seq, n) == SubSeq(seq, 1, IF n < Len(seq) THEN n ELSE Len(seq))

\* The places of order whose passage matches where.
Matching(st, order, where) ==
    SelectSeq([k \in 1..Len(order) |-> k],
              LAMBDA k : Matches(st[order[k]].metadata, where))

collection_query(st, order, n_results, where, fails) ==
    IF fails
    THEN [raises |-> TRUE, error |-> "store failure"]
    ELSE IF n_results <= 0
    THEN [raises |-> TRUE, error |-> "n_results must be positive"]
    ELSE LET hits == Take(Matching(st, order, where), n_results)
         IN  [raises  |-> FALSE,
              results |->
                [ids       |-> << [i \in 1..Len(hits) |-> order[hits[i]]] >>,
                 documents |-> << [i \in 1..Len(hits) |-> st[order[hits[i]]].document] >>,
                 metadatas |-> << [i \in 1..Len(hits) |-> st[order[hits[i]]].metadata] >>,
                 distances |-> << [i \in 1..Len(hits) |-> hits[i]] >>]]

\* ChromaDBClient.query_with_embeddings
query_with_embeddings(st, order, query_embeddings, n_results, where, fails) ==
    collection_query(st, order, n_results, where, fails)

\* ChromaDBClient.query: the collection embeds query_text itself.
query(st, order, query_text, n_results, where, fails) ==
    collection_query(st, order, n_results, where, fails)

(* ------------------------------------------------------------------ *)
(* RetrievalTool (app/tools/retrieve.py)                               *)
(* ------------------------------------------------------------------ *)

\* _generate_query_embedding
generate_query_embedding(query_text) == Embedding(query_text)

\* The exceptions that may be raised inside the try block of retrieve.
RetrieveFaults == {"none", "embed", "query"}

\* The citations built in the reverse order of the passages.
MutCitationsReversed(metadatas) ==
    [i \in 1..Len(metadatas) |->
        create_citation(metadatas[Len(metadatas) + 1 - i])]

\* The citations of the returned passages.
Citations(metadatas) ==
    [i \in 1..Len(metadatas) |-> create_citation(metadatas[i])]

\* The store asked without the filter.
MutStoreArgsNoFilter(n_results, filter_metadata) ==
    [n_results |-> n_results, where |-> None]

\* The n_results and the where that retrieve gives the store.
StoreArgs(n_results, filter_metadata) ==
    [n_results |-> n_results, where |-> filter_metadata]

\* The try block of retrieve.  asked is what was given to the store and
\* got what the store returned.
RetrieveTry(query_text, n_results, filter_metadata, st, order, fault) ==
    IF fault = "embed"
    THEN [exc |-> TRUE, error |-> "embedding error", calls |-> <<"embed">>,
          asked |-> None, got |-> None, result |-> [success |-> FALSE]]
    ELSE
    LET query_embedding == generate_query_embedding(query_text)
        asked == StoreArgs(n_results, filter_metadata)
        Rest(r) ==
            IF r.raises
            THEN [exc |-> TRUE, error |-> r.error, calls |-> <<"embed", "query">>,
                  asked |-> asked, got |-> None, result |-> [success |-> FALSE]]
            ELSE
            LET results   == r.results
                documents == Get(results, "documents", << <<>> >>)[1]
                metadatas == Get(results, "metadatas", << <<>> >>)[1]
                distances == Get(results, "distances", << <<>> >>)[1]
                citations == Citations(metadatas)
            IN  [exc |-> FALSE, error |-> "", calls |-> <<"embed", "query">>,
                 asked |-> asked, got |-> results,
                 result |-> [success     |-> TRUE,
                             query       |-> query_text,
                             chunks      |-> documents,
                             metadatas   |-> metadatas,
                             citations   |-> citations,
                             distances   |-> distances,
                             num_results |-> Len(documents)]]
    IN  The({ Rest(r) :
                r \in {query_with_embeddings(st, order, <<query_embedding>>,
                                             asked.n_results, asked.where,
                                             fault = "query")} })

\* A retrieve without its except clause.
MutRetrieveRaises(query_text, t) ==
    [raised |-> t.exc, exc |-> t.exc, result |-> t.result, calls |-> t.calls,
     asked |-> t.asked, got |-> t.got]

\* The except clause of retrieve.
RetrieveExcept(query_text, t) ==
    [raised |-> FALSE,
     exc    |-> t.exc,
     result |-> IF t.exc
                THEN [success |-> FALSE, error |-> t.error, query |-> query_text]
                ELSE t.result,
     calls  |-> t.calls,
     asked  |-> t.asked,
     got    |-> t.got]

\* retrieve
retrieve(query_text, n_results, filter_metadata, st, order, fault) ==
    The({ RetrieveExcept(query_text, t) :
            t \in {RetrieveTry(query_text, n_results, filter_metadata, st,
                               order, fault)} })

\* The empty query text of search_by_filename.
EmptyText == <<>>

\* The exceptions that may be raised inside the try block of
\* search_by_filename: the store's query fails, be it while it embeds
\* the query text or while it searches.
SearchFaults == {"none", "query"}

\* search_by_filename
search_by_filename(filename, n_results, st, order, fault) ==
    LET filter_metadata == [filename |-> filename]
        asked == [query_text |-> EmptyText, n_results |-> n_results,
                  where |-> filter_metadata]
        Rest(r) ==
            IF r.raises
            THEN [raised |-> FALSE, exc |-> TRUE, calls |-> <<"query">>,
                  asked |-> asked, got |-> None,
                  result |-> [success |-> FALSE, error |-> r.error,
                              filename |-> filename]]
            ELSE
            LET results   == r.results
                documents == Get(results, "documents", << <<>> >>)[1]
                metadatas == Get(results, "metadatas", << <<>> >>)[1]
            IN  [raised |-> FALSE, exc |-> FALSE, calls |-> <<"query">>,
                 asked |-> asked, got |-> results,
                 result |-> [success     |-> TRUE,
                             filename    |-> filename,
                             chunks      |-> documents,
                             metadatas   |-> metadatas,
                             citations   |-> Citations(metadatas),
                             num_results |-> Len(documents)]]
    IN  The({ Rest(r) :
                r \in {query(st, order, asked.query_text, asked.n_results,
                             asked.where, fault = "query")} })

\* A string of the formatted context: one element per symbol of a
\* literal or a citation, and the pieces of a passage as they are.
Str(symbols) == [i \in 1..Len(symbols) |-> [s |-> symbols[i]]]

NewLine == [s |-> "\n"]

RECURSIVE JoinLines(_)
\* "\n".join(parts)
JoinLines(parts) ==
    IF Len(parts) = 0 THEN <<>>
    ELSE IF Len(parts) = 1 THEN parts[1]
    ELSE parts[1] \o <<NewLine>> \o JoinLines(Tail(parts))

Sentinel == Str(<<"No relevant information found in the database.">>)

\* The blocks numbered from 0.
MutSourceNumberFromZero(i) == i - 1

\* The number enumerate(zip(chunks, citations), 1) gives the pair at
\* place i (from 1).
SourceNumber(i) == i

\* The three parts appended for one passage.
Block(idx, chunk, citation) ==
    << Str(<<"\n", "[", "Source", " ", ToString(idx), ":", " ">>)
           \o Str(citation) \o Str(<<"]">>),
       chunk,
       <<>> >>

\* format_context_for_agent
format_context_for_agent(retrieval_result) ==
    IF ~Get(retrieval_result, "success", FALSE)
    THEN Sentinel
    ELSE
    LET chunks    == retrieval_result["chunks"]
        citations == retrieval_result["citations"]
        pairs     == IF Len(chunks) < Len(citations) THEN Len(chunks)
                     ELSE Len(citations)
    IN  IF chunks = <<>>
        THEN Sentinel
        ELSE JoinLines(
                << Str(<<"Retrieved information from documents:", "\n">>) >>
                \o Flatten([i \in 1..pairs |->
                              Block(SourceNumber(i), chunks[i], citations[i])]))

(* ------------------------------------------------------------------ *)
(* The retrieval tool as a state machine over a store that ingestion   *)
(* has filled.  rcall records the last call: its arguments, the order  *)
(* in which the store ranked its passages, what was given to the store *)
(* (asked), what the store returned (got), the result, and the context *)
(* formatted from the result once format_context_for_agent has run.    *)
(* ------------------------------------------------------------------ *)

\* Largest n_results asked for.
MaxResults == 2

\* The files whose ingestion fills the store.
StoredFiles == {GoodPdf, QSpacePdf, QUnderPdf}

RECURSIVE StoreAfter(_)
\* The store after ingest_document on each file of files in turn.
StoreAfter(files) ==
    IF files = <<>> THEN <<>>
    ELSE ingest_document(files[Len(files)], "none",
                         StoreAfter(SubSeq(files, 1, Len(files) - 1)),
                         Len(files) - 1, "ignore").store

IngestedStores ==
    { StoreAfter(files) : files \in UNION { [1..n -> StoredFiles] : n \in 0..2 } }

\* The orders in which the store may rank its passages for a query.
Orders(st) ==
    { order \in [1..Cardinality(DOMAIN st) -> DOMAIN st] :
        \A i, j \in DOMAIN order : i # j => order[i] # order[j] }

QueryTexts == {ShortText, OtherText}

Filters ==
    { None,
      [filename |-> GoodPdf],
      [file_type |-> "pdf"],
      [filename |-> QSpacePdf, page_number |-> 1],
      [page_number |-> 2] }

SearchNames == {GoodPdf, QSpacePdf, NotesTxt}

InitQuery ==
    /\ store \in IngestedStores
    /\ dupPolicy = "ignore"
    /\ clock = 0
    /\ ncalls = 0
    /\ call = NoCall
    /\ batch = NoBatch
    /\ ChunkIdle
    /\ IdIdle
    /\ ToolsIdle

\* A caller calls retrieve(query, n_results, filter_metadata).  The tool
\* keeps nothing from one call to the next, so one call is followed from
\* each store.
Retrieve ==
    /\ rcall.kind = "none"
    /\ \E query_text \in QueryTexts, n_results \in 0..MaxResults,
          filter_metadata \in Filters, order \in Orders(store),
          fault \in RetrieveFaults :
          \E r \in {retrieve(query_text, n_results, filter_metadata, store,
                             order, fault)} :
              rcall' = [kind |-> "retrieve", query |-> query_text,
                        n_results |-> n_results,
                        filter_metadata |-> filter_metadata, order |-> order,
                        raised |-> r.raised, exc |-> r.exc, result |-> r.result,
                        calls |-> r.calls, asked |-> r.asked, got |-> r.got,
                        formatted |-> FALSE, context |-> <<>>]
    /\ UNCHANGED <<info, mcall, client>>
    /\ UNCHANGED <<cvars, ivars, gvars, svars>>

\* A caller calls search_by_filename(filename, n_results).
SearchByFilename ==
    /\ rcall.kind = "none"
    /\ \E filename \in SearchNames, n_results \in 0..MaxResults,
          order \in Orders(store), fault \in SearchFaults :
          \E r \in {search_by_filename(filename, n_results, store, order, fault)} :
              rcall' = [kind |-> "search", filename |-> filename,
                        n_results |-> n_results, order |-> order,
                        raised |-> r.raised, exc |-> r.exc, result |-> r.result,
                        calls |-> r.calls, asked |-> r.asked, got |-> r.got,
                        formatted |-> FALSE, context |-> <<>>]
    /\ UNCHANGED <<info, mcall, client>>
    /\ UNCHANGED <<cvars, ivars, gvars, svars>>

\* The agent formats the result of the last retrieve.
FormatContext ==
    /\ rcall.kind = "retrieve"
    /\ ~rcall.formatted
    /\ rcall' = [rcall EXCEPT !.formatted = TRUE,
                              !.context = format_context_for_agent(rcall.result)]
    /\ UNCHANGED <<info, mcall, client>>
    /\ UNCHANGED <<cvars, ivars, gvars, svars>>

NextQuery == Retrieve \/ SearchByFilename \/ FormatContext

SpecQuery == InitQuery /\ [][NextQuery]_vars

(* ------------------------------------------------------------------ *)
(* Properties of the retrieval tool                                    *)
(* ------------------------------------------------------------------ *)

\* The last call was a retrieve that returned success.
Retrieved == rcall.kind = "retrieve" /\ rcall.result.success

\* C11: a successful retrieve returns chunks, metadatas and distances as
\* the store returned them, in the store's order and all of them;
\* citations[i] is create_citation(metadatas[i]); the four lists have
\* length num_results and place i is the same stored passage in each.
C11_OrderPreserved ==
    Retrieved =>
        LET r == rcall.result
            g == rcall.got
        IN  /\ r.chunks = g.documents[1]
            /\ r.metadatas = g.metadatas[1]
            /\ r.distances = g.distances[1]
            /\ Len(r.chunks) = r.num_results
            /\ Len(r.metadatas) = r.num_results
            /\ Len(r.citations) = r.num_results
            /\ Len(r.distances) = r.num_results
            /\ \A i \in 1..r.num_results :
                  /\ r.citations[i] = create_citation(r.metadatas[i])
                  /\ r.chunks[i] = store[g.ids[1][i]].document
                  /\ r.metadatas[i] = store[g.ids[1][i]].metadata
                  /\ r.citations[i] = create_citation(store[g.ids[1][i]].metadata)
                  /\ \A j \in 1..r.num_results :
                        i < j => r.distances[i] <= r.distances[j]

\* C11 witness: a retrieve returned two passages with different
\* citations, the nearer of them ranked after a passage that did not
\* match the filter.
C11_Witness ==
    /\ Retrieved
    /\ rcall.result.num_results = 2
    /\ rcall.result.citations[1] # rcall.result.citations[2]
    /\ rcall.result.distances[1] > 1

\* C12: retrieve never raises; when the embedding call or the store
\* query fails the result is {success: false, error, query} and has no
\* chunks, metadatas, citations or distances.
C12_RetrieveNeverRaises ==
    rcall.kind = "retrieve" =>
        /\ ~rcall.raised
        /\ "success" \in DOMAIN rcall.result
        /\ rcall.exc => ~rcall.result.success
        /\ ~rcall.result.success =>
              /\ DOMAIN rcall.result = {"success", "error", "query"}
              /\ rcall.result.query = rcall.query

\* C12 witness: the store query failed on a store that holds passages.
C12_Witness ==
    /\ rcall.kind = "retrieve"
    /\ rcall.exc
    /\ rcall.calls = <<"embed", "query">>
    /\ rcall.n_results > 0
    /\ DOMAIN store # {}
    /\ ~rcall.result.success

\* C13: a successful retrieve gives the store k = n_results and
\* filter_metadata as they are; it returns at most n_results passages,
\* each with metadata equal to the filter on every field of the filter;
\* on a store without passages a retrieve that met no failure returns
\* success with no chunks and num_results 0.
C13_BoundAndFilter ==
    rcall.kind = "retrieve" =>
        /\ rcall.result.success =>
              /\ rcall.asked = [n_results |-> rcall.n_results,
                                where |-> rcall.filter_metadata]
              /\ Len(rcall.result.chunks) <= rcall.n_results
              /\ \A i \in 1..Len(rcall.result.metadatas) :
                    \/ rcall.filter_metadata = None
                    \/ \A f \in DOMAIN rcall.filter_metadata :
                          /\ f \in DOMAIN rcall.result.metadatas[i]
                          /\ rcall.result.metadatas[i][f] = rcall.filter_metadata[f]
        /\ DOMAIN store = {} /\ ~rcall.exc =>
              /\ rcall.result.success
              /\ rcall.result.chunks = <<>>
              /\ rcall.result.num_results = 0

\* C13 witness: a retrieve with a filename filter and n_results 2 on a
\* store with three passages of that file and a passage of another file
\* returned two passages.
C13_Witness ==
    /\ Retrieved
    /\ rcall.filter_metadata = [filename |-> GoodPdf]
    /\ rcall.n_results = 2
    /\ rcall.result.num_results = 2
    /\ Cardinality({id \in DOMAIN store : store[id].metadata.filename = GoodPdf}) = 3
    /\ \E id \in DOMAIN store : store[id].metadata.filename # GoodPdf

\* The ids search_by_filename gets from the store when the store ranks
\* its passages in the given order.
SearchIds(filename, n_results, order) ==
    LET r == search_by_filename(filename, n_results, store, order, "none")
    IN  IF r.result.success
        THEN {r.got.ids[1][i] : i \in 1..Len(r.got.ids[1])}
        ELSE {}

\* C14 (as claimed): search_by_filename returns at most n_results
\* passages, each with metadata filename equal to the given filename,
\* and which passages it returns does not depend on a ranking of the
\* passages against the query text; a store failure is returned as
\* {success: false, error, filename} and not raised.
C14_NoRanking ==
    rcall.kind = "search" =>
        /\ ~rcall.raised
        /\ ~rcall.result.success =>
              /\ DOMAIN rcall.result = {"success", "error", "filename"}
              /\ rcall.result.filename = rcall.filename
        /\ rcall.result.success =>
              /\ Len(rcall.result.chunks) <= rcall.n_results
              /\ \A i \in 1..Len(rcall.result.metadatas) :
                    rcall.result.metadatas[i].filename = rcall.filename
              /\ rcall.asked.query_text = EmptyText
              /\ \A order \in Orders(store) :
                    SearchIds(rcall.filename, rcall.n_results, order)
                        = {rcall.got.ids[1][i] : i \in 1..Len(rcall.got.ids[1])}

RECURSIVE SplitLines(_)
\* str.split("\n")
SplitLines(text) ==
    IF \A i \in 1..Len(text) : text[i] # NewLine
    THEN << text >>
    ELSE LET k == CHOOSE i \in 1..Len(text) :
                      text[i] = NewLine /\ \A j \in 1..i - 1 : text[j] # NewLine
         IN  << SubSeq(text, 1, k - 1) >>
                 \o SplitLines(SubSeq(text, k + 1, Len(text)))

\* C15: format_context_for_agent returns the sentinel exactly when the
\* result has success false or no chunks; otherwise the context has one
\* block per returned passage, numbered from 1 in result order, and
\* block i is the line "[Source i: citations[i]]" followed by chunks[i].
C15_ContextBlocks ==
    rcall.kind = "retrieve" /\ rcall.formatted =>
        LET r == rcall.result
            nothing == ~r.success \/ r.chunks = <<>>
        IN  /\ rcall.context = Sentinel <=> nothing
            /\ ~nothing =>
                  LET lines == SplitLines(rcall.context)
                  IN  /\ Len(lines) = 4 * r.num_results + 2
                      /\ lines[1] = Str(<<"Retrieved information from documents:">>)
                      /\ \A i \in 1..r.num_results :
                            /\ lines[4 * i] =
                                   Str(<<"[", "Source", " ", ToString(i), ":", " ">>)
                                       \o Str(r.citations[i]) \o Str(<<"]">>)
                            /\ lines[4 * i + 1] = r.chunks[i]

\* C15 witness: the context of a retrieve that returned two passages
\* with different citations has been formatted.
C15_Witness ==
    /\ rcall.kind = "retrieve"
    /\ rcall.formatted
    /\ rcall.result.success
    /\ rcall.result.num_results = 2
    /\ rcall.result.citations[1] # rcall.result.citations[2]
    /\ rcall.context # Sentinel

(* ------------------------------------------------------------------ *)
(* MetadataExtractor.create_citation and enrich_chunk_metadata on      *)
(* bounded metadata.  mcall records the last call: the metadata given, *)
(* the other arguments, and what the call returned; for                *)
(* enrich_chunk_metadata also the caller's mapping after the call.     *)
(* ------------------------------------------------------------------ *)

\* Largest page and slide number.
MaxPage == 2

\* The values a key of the metadata may have.
MetaValues(key) ==
    CASE key = "filename"     -> {GoodPdf}
      [] key = "section"      -> {<<"Page", " ", "1">>, <<"Intro">>}
      [] key = "page_number"  -> 1..MaxPage
      [] key = "slide_number" -> 1..MaxPage
      [] key = "sheet_name"   -> {<<"Sheet1">>}

MetaKeys == {"filename", "section", "page_number", "slide_number", "sheet_name"}

RECURSIVE MetaWith(_)
\* The mappings with exactly the given keys.
MetaWith(keys) ==
    IF keys = {} THEN { <<>> }
    ELSE LET key == CHOOSE k \in keys : TRUE
         IN  { Put(m, key, v) : m \in MetaWith(keys \ {key}), v \in MetaValues(key) }

\* The mappings with some of the keys.
Metadatas == UNION { MetaWith(keys) : keys \in SUBSET MetaKeys }

\* What enrich_chunk_metadata leaves in the mapping it was given: the
\* fields are set on a copy of it.
MutEnrichInPlace(metadata, enriched) == enriched

InputAfterEnrich(metadata, enriched) == metadata

InitMeta ==
    /\ mcall \in { [kind |-> "given", metadata |-> m] : m \in Metadatas }
    /\ RetrievalIdle
    /\ InfoIdle
    /\ ClientIdle
    /\ ChunkIdle
    /\ IdIdle
    /\ IngestIdle
    /\ ChunkerIdle
    /\ DocIdle
    /\ RaceIdle

\* create_citation(metadata)
CreateCitation ==
    /\ mcall.kind = "given"
    /\ mcall' = [kind |-> "cite", metadata |-> mcall.metadata,
                 citation |-> create_citation(mcall.metadata)]
    /\ UNCHANGED <<rcall, info, client>>
    /\ UNCHANGED <<cvars, ivars, gvars, svars>>

\* enrich_chunk_metadata(metadata, filename, file_type, upload_timestamp)
EnrichChunkMetadata ==
    /\ mcall.kind = "given"
    /\ \E filename \in {QSpacePdf, NotesTxt}, file_type \in {"pdf", "txt"},
          upload_timestamp \in {NoTimestamp, 5}, now \in {7} :
          \E enriched \in {enrich_chunk_metadata(mcall.metadata, filename,
                                                 file_type, upload_timestamp, now)} :
              mcall' = [kind |-> "enrich", metadata |-> mcall.metadata,
                        filename |-> filename, file_type |-> file_type,
                        upload_timestamp |-> upload_timestamp, now |-> now,
                        after |-> InputAfterEnrich(mcall.metadata, enriched),
                        out |-> enriched]
    /\ UNCHANGED <<rcall, info, client>>
    /\ UNCHANGED <<cvars, ivars, gvars, svars>>

NextMeta == CreateCitation \/ EnrichChunkMetadata

SpecMeta == InitMeta /\ [][NextMeta]_vars

(* ------------------------------------------------------------------ *)
(* Properties of create_citation and enrich_chunk_metadata             *)
(* ------------------------------------------------------------------ *)

\* The location forms a citation may end with, one per hint of the
\* metadata.
PageForm(m) == <<"Page", " ", ToString(m["page_number"])>>

SlideForm(m) == <<"Slide", " ", ToString(m["slide_number"])>>

SheetForm(m) == <<"Sheet", ":", " ">> \o m["sheet_name"]

SectionForm(m) ==
    IF "section" \in DOMAIN m THEN m["section"]
    ELSE <<"Unknown", " ", "section">>

\* C16: the citation is the file name, ", " and exactly one location:
\* the page when page_number is present, whatever else is present; else
\* the slide when slide_number is present; else the sheet when
\* sheet_name is present; the section only when none of the three is.
C16_CitationPriority ==
    mcall.kind = "cite" =>
        LET m == mcall.metadata
            name == IF "filename" \in DOMAIN m THEN m["filename"]
                    ELSE <<"Unknown", " ", "file">>
            location == SubSeq(mcall.citation, Len(name) + 3, Len(mcall.citation))
        IN  /\ SubSeq(mcall.citation, 1, Len(name) + 2) = name \o <<",", " ">>
            /\ "page_number" \in DOMAIN m => location = PageForm(m)
            /\ "page_number" \notin DOMAIN m /\ "slide_number" \in DOMAIN m =>
                  location = SlideForm(m)
            /\ /\ "page_number" \notin DOMAIN m
               /\ "slide_number" \notin DOMAIN m
               /\ "sheet_name" \in DOMAIN m
               => location = SheetForm(m)
            /\ DOMAIN m \cap {"page_number", "slide_number", "sheet_name"} = {} =>
                  location = SectionForm(m)

\* C16 witness: a citation was made from metadata with a page number, a
\* slide number, a sheet name and a section.
C16_Witness ==
    /\ mcall.kind = "cite"
    /\ {"page_number", "slide_number", "sheet_name", "section", "filename"}
           \subseteq DOMAIN mcall.metadata
    /\ mcall.citation = GoodPdf \o <<",", " ">> \o PageForm(mcall.metadata)

\* C17: enrich_chunk_metadata leaves the mapping it was given as it was
\* and returns a mapping that agrees with it on every other key, has
\* filename, file_type and upload_timestamp set to the values given (the
\* current time when no timestamp is given), and has the section of the
\* input when it has one and "Unknown" otherwise.
C17_EnrichCopies ==
    mcall.kind = "enrich" =>
        LET set == {"filename", "file_type", "upload_timestamp"}
        IN  /\ mcall.after = mcall.metadata
            /\ DOMAIN mcall.out = DOMAIN mcall.metadata \cup set \cup {"section"}
            /\ \A k \in DOMAIN mcall.metadata \ set :
                  mcall.out[k] = mcall.metadata[k]
            /\ mcall.out["filename"] = mcall.filename
            /\ mcall.out["file_type"] = mcall.file_type
            /\ mcall.upload_timestamp # NoTimestamp =>
                  mcall.out["upload_timestamp"] = mcall.upload_timestamp
            /\ mcall.upload_timestamp = NoTimestamp =>
                  mcall.out["upload_timestamp"] = mcall.now
            /\ "section" \notin DOMAIN mcall.metadata =>
                  mcall.out["section"] = <<"Unknown">>

\* C17 witness: metadata with another file name, a page number and no
\* section was enriched with a timestamp given.
C17_Witness ==
    /\ mcall.kind = "enrich"
    /\ "filename" \in DOMAIN mcall.metadata
    /\ mcall.metadata["filename"] # mcall.filename
    /\ "page_number" \in DOMAIN mcall.metadata
    /\ "section" \notin DOMAIN mcall.metadata
    /\ mcall.upload_timestamp = 5
    /\ mcall.out["section"] = <<"Unknown">>

(* ------------------------------------------------------------------ *)
(* ChromaDBClient (app/db/chroma.py): the cached collection handle.    *)
(* The database (external) maps the name of each collection it holds   *)
(* to the collection's identity, a number never used twice.  A handle  *)
(* is a name with the identity of the collection it refers to.         *)
(* client records the database (db), the cached handle (_collection),  *)
(* the next unused identity, the handles of the collections deleted or *)
(* reset so far (dead), the number of calls made and the last call.    *)
(* ------------------------------------------------------------------ *)

\* Most calls made on the client.
MaxOps == 4

CollectionNames == {"rag_documents", "other"}

DefaultName == "rag_documents"

\* _collection = None
NoHandle == [name |-> "", uuid |-> 0]

\* self._client.get_or_create_collection(name=...)
client_get_or_create(k, name) ==
    IF name \in DOMAIN k.db
    THEN [db |-> k.db, next |-> k.next,
          handle |-> [name |-> name, uuid |-> k.db[name]]]
    ELSE [db |-> Put(k.db, name, k.next), next |-> k.next + 1,
          handle |-> [name |-> name, uuid |-> k.next]]

\* get_or_create_collection
get_or_create_collection(k, collection_name) ==
    IF k._collection = NoHandle \/ k._collection.name # collection_name
    THEN LET c == client_get_or_create(k, collection_name)
         IN  [db |-> c.db, next |-> c.next, _collection |-> c.handle,
              reused |-> FALSE, returned |-> c.handle]
    ELSE [db |-> k.db, next |-> k.next, _collection |-> k._collection,
          reused |-> TRUE, returned |-> k._collection]

\* delete_collection that leaves the cache as it is.
MutDeleteKeepsCache(k, collection_name) ==
    IF collection_name \notin DOMAIN k.db
    THEN [db |-> k.db, _collection |-> k._collection, dead |-> k.dead]
    ELSE [db |-> [n \in DOMAIN k.db \ {collection_name} |-> k.db[n]],
          _collection |-> k._collection,
          dead |-> k.dead \cup {[name |-> collection_name,
                                 uuid |-> k.db[collection_name]]}]

\* delete_collection: the database raises for a name it does not hold,
\* and the exception is caught before the cache is cleared.
delete_collection(k, collection_name) ==
    IF collection_name \notin DOMAIN k.db
    THEN [db |-> k.db, _collection |-> k._collection, dead |-> k.dead]
    ELSE [db |-> [n \in DOMAIN k.db \ {collection_name} |-> k.db[n]],
          _collection |-> NoHandle,
          dead |-> k.dead \cup {[name |-> collection_name,
                                 uuid |-> k.db[collection_name]]}]

\* reset: the database refuses (raises) when resetting is not allowed by
\* its settings, and the cache is then not cleared.
reset(k, allowed) ==
    IF ~allowed
    THEN [db |-> k.db, _collection |-> k._collection, dead |-> k.dead,
          raised |-> TRUE]
    ELSE [db |-> <<>>, _collection |-> NoHandle,
          dead |-> k.dead \cup {[name |-> n, uuid |-> k.db[n]] : n \in DOMAIN k.db},
          raised |-> FALSE]

InitClient ==
    /\ client = [kind |-> "client", db |-> <<>>, _collection |-> NoHandle,
                 next |-> 1, dead |-> {}, ops |-> 0,
                 last |-> [op |-> "none"]]
    /\ RetrievalIdle
    /\ InfoIdle
    /\ MetaIdle
    /\ ChunkIdle
    /\ IdIdle
    /\ IngestIdle
    /\ ChunkerIdle
    /\ DocIdle
    /\ RaceIdle

\* A caller calls get_or_create_collection(collection_name).
GetOrCreateCollection ==
    /\ client.ops < MaxOps
    /\ \E collection_name \in CollectionNames :
          \E r \in {get_or_create_collection(client, collection_name)} :
              client' = [client EXCEPT
                            !.db = r.db, !.next = r.next,
                            !._collection = r._collection,
                            !.ops = @ + 1,
                            !.last = [op |-> "get", name |-> collection_name,
                                      before |-> client._collection,
                                      reused |-> r.reused,
                                      handle |-> r.returned]]
    /\ UNCHANGED <<rcall, info, mcall>>
    /\ UNCHANGED <<cvars, ivars, gvars, svars>>

\* add_chunks, query, query_with_embeddings and get_collection_count
\* take their collection from get_or_create_collection().
UseCollection ==
    /\ client.ops < MaxOps
    /\ \E op \in {"add_chunks", "query"} :
          \E r \in {get_or_create_collection(client, DefaultName)} :
              client' = [client EXCEPT
                            !.db = r.db, !.next = r.next,
                            !._collection = r._collection,
                            !.ops = @ + 1,
                            !.last = [op |-> op, name |-> DefaultName,
                                      before |-> client._collection,
                                      reused |-> r.reused,
                                      handle |-> r.returned]]
    /\ UNCHANGED <<rcall, info, mcall>>
    /\ UNCHANGED <<cvars, ivars, gvars, svars>>

\* A caller calls delete_collection(collection_name).
DeleteCollection ==
    /\ client.ops < MaxOps
    /\ \E collection_name \in CollectionNames :
          \E r \in {delete_collection(client, collection_name)} :
              client' = [client EXCEPT
                            !.db = r.db, !._collection = r._collection,
                            !.dead = r.dead, !.ops = @ + 1,
                            !.last = [op |-> "delete", name |-> collection_name]]
    /\ UNCHANGED <<rcall, info, mcall>>
    /\ UNCHANGED <<cvars, ivars, gvars, svars>>

\* A caller calls reset().
Reset ==
    /\ client.ops < MaxOps
    /\ \E allowed \in BOOLEAN :
          \E r \in {reset(client, allowed)} :
              client' = [client EXCEPT
                            !.db = r.db, !._collection = r._collection,
                            !.dead = r.dead, !.ops = @ + 1,
                            !.last = [op |-> "reset", raised |-> r.raised]]
    /\ UNCHANGED <<rcall, info, mcall>>
    /\ UNCHANGED <<cvars, ivars, gvars, svars>>

NextClient == GetOrCreateCollection \/ UseCollection \/ DeleteCollection \/ Reset

SpecClient == InitClient /\ [][NextClient]_vars

\* The handle refers to a collection the database holds.
Live(h) == h.name \in DOMAIN client.db /\ client.db[h.name] = h.uuid

\* C18: one handle at most is cached; get_or_create_collection(name)
\* returns the cached handle exactly when one is cached under that name
\* and otherwise caches and returns a handle for name; the handle
\* returned or used has the name asked for and refers to a collection
\* the database holds, never to one that was deleted or reset.
C18_HandleCache ==
    /\ client._collection # NoHandle =>
          Live(client._collection) /\ client._collection \notin client.dead
    /\ client.last.op \in {"get", "add_chunks", "query"} =>
          LET l == client.last
          IN  /\ l.handle.name = l.name
              /\ Live(l.handle)
              /\ l.handle \notin client.dead
              /\ client._collection = l.handle
              /\ l.reused <=> (l.before # NoHandle /\ l.before.name = l.name)
              /\ l.reused => l.handle = l.before

\* C18 witness: a handle was returned for a name under which an earlier
\* collection was deleted or reset.
C18_Witness ==
    /\ client.last.op = "get"
    /\ \E d \in client.dead : d.name = client.last.name
    /\ client.last.before # NoHandle
    /\ ~client.last.reused

(* ------------------------------------------------------------------ *)
(* MetadataQueryTool (app/tools/metadata.py)                           *)
(*                                                                     *)
(* The tool reads only filename, file_type, upload_timestamp and       *)
(* section of the stored passages.  The collection is written here as  *)
(* a sequence of runs, in the order collection.get lists the passages: *)
(* a run [metadata, count] stands for count passages, one after the    *)
(* other, whose metadata agree on these four fields.                   *)
(* ------------------------------------------------------------------ *)

\* limit of collection.get in list_indexed_files
list_limit == 10000

\* limit of collection.get in get_file_info
info_limit == 10000

RECURSIVE CountOf(_)
\* collection.count()
CountOf(runs) ==
    IF runs = <<>> THEN 0 ELSE runs[1].count + CountOf(Tail(runs))

RECURSIVE Limit(_, _)
\* The first limit passages of the runs.
Limit(runs, limit) ==
    IF runs = <<>> \/ limit <= 0 THEN <<>>
    ELSE IF runs[1].count >= limit
    THEN << [metadata |-> runs[1].metadata, count |-> limit] >>
    ELSE << runs[1] >> \o Limit(Tail(runs), limit - runs[1].count)

\* collection.get(where=..., limit=...): the metadatas of the first
\* limit passages that match where.
collection_get(runs, where, limit) ==
    Limit(SelectSeq(runs, LAMBDA run : Matches(run.metadata, where)), limit)

RECURSIVE FilesInfo(_, _)
\* The loop of list_indexed_files over metadatas: files_info, here the
\* entries in the order of their insertion.
FilesInfo(metadatas, files_info) ==
    IF metadatas = <<>> THEN files_info
    ELSE
    LET metadata == metadatas[1].metadata
        filename == Get(metadata, "filename", <<"Unknown">>)
        known    == \E i \in 1..Len(files_info) : files_info[i].filename = filename
        entered  == IF known THEN files_info
                    ELSE Append(files_info,
                            [filename         |-> filename,
                             file_type        |-> Get(metadata, "file_type", "unknown"),
                             upload_timestamp |-> Get(metadata, "upload_timestamp",
                                                      NoTimestamp),
                             chunk_count      |-> 0])
        counted  == [i \in 1..Len(entered) |->
                        IF entered[i].filename = filename
                        THEN [entered[i] EXCEPT
                                 !.chunk_count = @ + metadatas[1].count]
                        ELSE entered[i]]
    IN  FilesInfo(Tail(metadatas), counted)

\* list_indexed_files
list_indexed_files(runs, fails) ==
    IF fails
    THEN [raised |-> FALSE, exc |-> TRUE,
          result |-> [success |-> FALSE, error |-> "store failure"]]
    ELSE
    LET total_chunks == CountOf(runs)
    IN  IF total_chunks = 0
        THEN [raised |-> FALSE, exc |-> FALSE,
              result |-> [success |-> TRUE, total_files |-> 0,
                          total_chunks |-> 0, files |-> <<>>]]
        ELSE LET Listed(files_info) ==
                     [raised |-> FALSE, exc |-> FALSE,
                      result |-> [success      |-> TRUE,
                                  total_files  |-> Len(files_info),
                                  total_chunks |-> total_chunks,
                                  files        |-> files_info]]
             IN  The({ Listed(files_info) :
                         files_info \in
                             {FilesInfo(collection_get(runs, None, list_limit),
                                        <<>>)} })

\* The section labels of the stored passages in the order sorted() puts
\* them.
SortedLabels == << <<"Page", " ", "1">>, <<"Page", " ", "2">> >>

\* sorted(list(sections))
sorted(sections) == SelectSeq(SortedLabels, LAMBDA label : label \in sections)

\* get_file_info
get_file_info(filename, runs, fails) ==
    IF fails
    THEN [raised |-> FALSE, exc |-> TRUE,
          result |-> [success |-> FALSE, error |-> <<"store failure">>]]
    ELSE
    LET Info(metadatas) ==
            IF metadatas = <<>>
            THEN [raised |-> FALSE, exc |-> FALSE,
                  result |-> [success |-> FALSE,
                              error |-> <<"File">> \o filename
                                           \o <<"not found in database">>]]
            ELSE [raised |-> FALSE, exc |-> FALSE,
                  result |->
                    [success          |-> TRUE,
                     filename         |-> filename,
                     file_type        |-> Get(metadatas[1].metadata, "file_type",
                                              "unknown"),
                     upload_timestamp |-> Get(metadatas[1].metadata,
                                              "upload_timestamp", NoTimestamp),
                     chunk_count      |-> CountOf(metadatas),
                     sections         |->
                         sorted({Get(metadatas[i].metadata, "section",
                                     <<"Unknown">>) : i \in 1..Len(metadatas)})]]
    IN  The({ Info(metadatas) :
                metadatas \in {collection_get(runs, [filename |-> filename],
                                              info_limit)} })

\* Most runs of a store.
MaxRuns == 2

\* The passage counts of a run.
RunCounts == {1, 2, 9999, 10000}

\* The metadata of the passages of a run.
RunMetadatas ==
    { [filename |-> GoodPdf, file_type |-> "pdf", upload_timestamp |-> 0,
       section |-> <<"Page", " ", "1">>],
      [filename |-> GoodPdf, file_type |-> "pdf", upload_timestamp |-> 0,
       section |-> <<"Page", " ", "2">>],
      [filename |-> QSpacePdf, file_type |-> "pdf", upload_timestamp |-> 1,
       section |-> <<"Page", " ", "1">>] }

RunStores ==
    UNION { [1..n -> [metadata : RunMetadatas, count : RunCounts]] :
            n \in 0..MaxRuns }

InitInfo ==
    /\ info \in { [kind |-> "store", runs |-> runs] : runs \in RunStores }
    /\ RetrievalIdle
    /\ MetaIdle
    /\ ClientIdle
    /\ ChunkIdle
    /\ IdIdle
    /\ IngestIdle
    /\ ChunkerIdle
    /\ DocIdle
    /\ RaceIdle

\* A caller calls list_indexed_files().
ListIndexedFiles ==
    /\ info.kind = "store"
    /\ \E fails \in BOOLEAN :
          \E r \in {list_indexed_files(info.runs, fails)} :
              info' = [kind |-> "list", runs |-> info.runs,
                       raised |-> r.raised, exc |-> r.exc, result |-> r.result]
    /\ UNCHANGED <<rcall, mcall, client>>
    /\ UNCHANGED <<cvars, ivars, gvars, svars>>

\* A caller calls get_file_info(filename).
GetFileInfo ==
    /\ info.kind = "store"
    /\ \E filename \in {GoodPdf, QSpacePdf, NotesTxt}, fails \in BOOLEAN :
          \E r \in {get_file_info(filename, info.runs, fails)} :
              info' = [kind |-> "fileinfo", runs |-> info.runs,
                       filename |-> filename,
                       raised |-> r.raised, exc |-> r.exc, result |-> r.result]
    /\ UNCHANGED <<rcall, mcall, client>>
    /\ UNCHANGED <<cvars, ivars, gvars, svars>>

NextInfo == ListIndexedFiles \/ GetFileInfo

SpecInfo == InitInfo /\ [][NextInfo]_vars

(* ------------------------------------------------------------------ *)
(* Properties of the metadata query tool                               *)
(* ------------------------------------------------------------------ *)

\* The runs of the store whose passages have the file name.
RunsOf(filename) ==
    SelectSeq(info.runs, LAMBDA run : run.metadata.filename = filename)

\* The number of stored passages with the file name.
StoredWith(filename) == CountOf(RunsOf(filename))

\* C19 (as claimed): get_file_info never raises; when the store does not
\* fail it returns a not-found result {success: false, error} exactly
\* when no stored passage has the file name, and otherwise chunk_count
\* is the number of stored passages with the file name and sections the
\* sorted distinct section labels of these passages.
C19_FileInfo ==
    info.kind = "fileinfo" =>
        /\ ~info.raised
        /\ ~info.exc =>
              LET r == info.result
                  runs == RunsOf(info.filename)
              IN  /\ ~r.success <=> StoredWith(info.filename) = 0
                  /\ ~r.success => DOMAIN r = {"success", "error"}
                  /\ r.success =>
                        /\ r.chunk_count = StoredWith(info.filename)
                        /\ r.sections =
                               sorted({runs[i].metadata.section : i \in 1..Len(runs)})

\* C20 (as claimed): list_indexed_files has one entry per distinct file
\* name among the stored passages, total_files is the number of
\* entries, the chunk_count of an entry is the number of stored passages
\* with its file name, total_chunks is the number of stored passages,
\* and the chunk_count values sum to total_chunks.
C20_ListedFiles ==
    info.kind = "list" /\ info.result.success =>
        LET r == info.result
            names == {info.runs[i].metadata.filename : i \in 1..Len(info.runs)}
        IN  /\ {r.files[i].filename : i \in 1..Len(r.files)} = names
            /\ Len(r.files) = Cardinality(names)
            /\ r.total_files = Len(r.files)
            /\ \A i \in 1..Len(r.files) :
                  r.files[i].chunk_count = StoredWith(r.files[i].filename)
            /\ r.total_chunks = CountOf(info.runs)
            /\ SumTo([i \in 1..Len(r.files) |-> r.files[i].chunk_count],
                     Len(r.files)) = r.total_chunks

(* ------------------------------------------------------------------ *)
(* Properties of the passages' sizes and numbering                     *)
(* ------------------------------------------------------------------ *)

\* C21 (as claimed): among the passages of one text only the last one
\* may have fewer than min_chunk_size tokens; every passage closed
\* before it has at least min_chunk_size tokens.
C21_OnlyRemainderShort ==
    cpc = "done" =>
        \A i \in 1..Len(cout) - 1 :
            count_tokens(cout[i].text) >= min_chunk_size

\* C22 (as claimed): every passage has a text that is not empty, the
\* passage of an empty text included.
C22_NonEmptyText ==
    cpc = "done" => \A i \in 1..Len(cout) : cout[i].text # <<>>

\* C24: the passages of a text carry chunk_index 0, 1, ..., n-1 in the
\* order they were emitted and every one carries total_chunks = n, the
\* number of passages returned; a text of at most max_chunk_size tokens
\* gives one passage whose text is the text given, unchanged.
C24_Numbering ==
    cpc = "done" =>
        /\ \A i \in 1..Len(cout) :
               /\ cout[i].metadata.chunk_index = i - 1
               /\ cout[i].metadata.total_chunks = Len(cout)
        /\ count_tokens(ctext) <= max_chunk_size =>
               /\ Len(cout) = 1
               /\ cout[1].text = ctext

\* C24 witness: a text of more than max_chunk_size tokens gave three
\* passages numbered 0, 1, 2 of 3.
C24_Witness ==
    /\ cpc = "done"
    /\ count_tokens(ctext) > max_chunk_size
    /\ Len(cout) = 3
    /\ cout[3].metadata.chunk_index = 2
    /\ cout[3].metadata.total_chunks = 3

(* ------------------------------------------------------------------ *)
(* TextChunker: construction                                           *)
(* ------------------------------------------------------------------ *)

\* Values given for a size parameter of the constructor.
SizeArgs == {0, 75, 300, 600, 601}

\* TextChunker.__init__: the three sizes are stored as they are given.
TextChunker(min_size, max_size, overlap) ==
    [kind           |-> "chunker",
     min_chunk_size |-> min_size,
     max_chunk_size |-> max_size,
     overlap_size   |-> overlap]

InitChunker ==
    /\ chunker = [kind |-> "none"]
    /\ RetrievalIdle /\ InfoIdle /\ MetaIdle /\ ClientIdle
    /\ DocIdle /\ RaceIdle
    /\ ChunkIdle
    /\ IdIdle
    /\ IngestIdle

\* A caller constructs TextChunker() with the default sizes.
ConstructDefault ==
    /\ chunker.kind = "none"
    /\ chunker' = TextChunker(min_chunk_size, max_chunk_size, overlap_size)
    /\ UNCHANGED <<doc, race>>
    /\ UNCHANGED <<cvars, ivars, gvars, tvars>>

\* A caller constructs TextChunker(min_chunk_size=..., max_chunk_size=...,
\* overlap_size=...).
Construct ==
    /\ chunker.kind = "none"
    /\ \E min_size \in SizeArgs, max_size \in SizeArgs, overlap \in SizeArgs :
          chunker' = TextChunker(min_size, max_size, overlap)
    /\ UNCHANGED <<doc, race>>
    /\ UNCHANGED <<cvars, ivars, gvars, tvars>>

NextChunker == ConstructDefault \/ Construct

SpecChunker == InitChunker /\ [][NextChunker]_vars

\* C23 (as claimed): every TextChunker instance has
\* overlap_size < min_chunk_size < max_chunk_size.
C23_SizeOrdering ==
    chunker.kind = "chunker" =>
        /\ chunker.overlap_size < chunker.min_chunk_size
        /\ chunker.min_chunk_size < chunker.max_chunk_size

(* ------------------------------------------------------------------ *)
(* TextChunker.chunk_document applied to a list of structural units    *)
(* ------------------------------------------------------------------ *)

\* Longest list of units given to chunk_document.
MaxUnits == 2

\* A key of a unit that may be missing: given with a value, or not given.
Opt(S) == {[has |-> FALSE]} \cup { [has |-> TRUE, v |-> x] : x \in S }

\* The texts, section labels and metadata mappings a unit may carry.
UnitTexts == {LongText, ShortText}

UnitSections == { <<"Page", " ", "1">>, <<"Intro">> }

UnitMetadatas == { [page_number |-> 1], [section |-> <<"Old">>] }

\* The unit with the keys that are given.
MkUnit(t, s, m) ==
    LET u1 == IF t.has THEN Put(<<>>, "text", t.v) ELSE <<>>
        u2 == IF s.has THEN Put(u1, "section", s.v) ELSE u1
    IN  IF m.has THEN Put(u2, "metadata", m.v) ELSE u2

Units ==
    { MkUnit(t, s, m) :
        t \in Opt(UnitTexts), s \in Opt(UnitSections), m \in Opt(UnitMetadatas) }

UnitLists == UNION { [1..n -> Units] : n \in 0..MaxUnits }

\* The unit parsed_chunk as the caller finds it after chunk_document:
\* metadata is the unit's own mapping when the unit has one, and the
\* section is written into it; a unit without one is given a fresh
\* mapping and is not touched.  chunk_text builds every passage's
\* metadata as a new mapping and writes into none it was given.
UnitAfterChunk(parsed_chunk) ==
    LET section == Get(parsed_chunk, "section", <<"Unknown">>)
    IN  IF "metadata" \in DOMAIN parsed_chunk
        THEN [parsed_chunk EXCEPT !.metadata = Put(@, "section", section)]
        ELSE parsed_chunk

InitDoc ==
    /\ doc \in { [kind |-> "given", units |-> us, out |-> <<>>, after |-> us] :
                   us \in UnitLists }
    /\ RetrievalIdle /\ InfoIdle /\ MetaIdle /\ ClientIdle
    /\ ChunkerIdle /\ RaceIdle
    /\ ChunkIdle
    /\ IdIdle
    /\ IngestIdle

\* chunk_document(doc.units)
ChunkDocument ==
    /\ doc.kind = "given"
    /\ doc' = [kind  |-> "done",
               units |-> doc.units,
               out   |-> chunk_document(doc.units),
               after |-> [u \in 1..Len(doc.units) |-> UnitAfterChunk(doc.units[u])]]
    /\ UNCHANGED <<chunker, race>>
    /\ UNCHANGED <<cvars, ivars, gvars, tvars>>

NextDoc == ChunkDocument

SpecDoc == InitDoc /\ [][NextDoc]_vars

\* The label of a unit: its section, "Unknown" when it has none.
LabelOf(unit) == Get(unit, "section", <<"Unknown">>)

\* chunk_text applied to one unit on its own.
AloneOf(unit) ==
    chunk_text(Get(unit, "text", <<>>),
               Put(Get(unit, "metadata", <<>>), "section", LabelOf(unit)))

\* The number of passages of the units before unit u.
Offset(units, u) ==
    SumTo([v \in 1..Len(units) |-> Len(AloneOf(units[v]))], u - 1)

\* Whether every piece of string s is a piece of text t.
PiecesFrom(s, t) ==
    \A k \in 1..Len(s) :
        \E j \in 1..Len(t) : t[j].id = s[k].id /\ t[j].tok = s[k].tok

\* C25: the passages of chunk_document are, unit after unit in the
\* units' order, the passages chunk_text gives for each unit on its own:
\* chunk_index restarts at 0 and total_chunks counts the passages of the
\* unit, the first passage of a unit begins with no overlap, a passage
\* holds pieces of its own unit's text only, and its metadata section
\* is the unit's section label, "Unknown" when the unit has none.
C25_PerUnit ==
    doc.kind = "done" =>
        /\ Len(doc.out) = Offset(doc.units, Len(doc.units) + 1)
        /\ \A u \in 1..Len(doc.units) :
               LET unit == doc.units[u]
                   n == Len(AloneOf(unit))
               IN  \A i \in 1..n :
                       LET p == doc.out[Offset(doc.units, u) + i]
                       IN  /\ p = AloneOf(unit)[i]
                           /\ p.metadata.chunk_index = i - 1
                           /\ p.metadata.total_chunks = n
                           /\ p.metadata.section = LabelOf(unit)
                           /\ i = 1 => p.seed = <<>>
                           /\ PiecesFrom(p.text, Get(unit, "text", <<>>))

\* C25 witness: a unit of two passages, the second begun with an overlap
\* tail, was followed by a unit without section label whose one passage
\* is numbered 0 of 1 and labelled "Unknown".
C25_Witness ==
    /\ doc.kind = "done"
    /\ Len(doc.units) = 2
    /\ Len(doc.out) = 3
    /\ doc.out[2].seed # <<>>
    /\ doc.out[3].text = ShortText
    /\ doc.out[3].metadata.chunk_index = 0
    /\ doc.out[3].metadata.total_chunks = 1
    /\ doc.out[3].metadata.section = <<"Unknown">>

\* C26 (as claimed): chunk_document leaves every unit given to it, its
\* text, section label and metadata mapping, as it was before the call.
C26_UnitsUntouched ==
    doc.kind = "done" => doc.after = doc.units

(* ------------------------------------------------------------------ *)
(* Properties of the steps and the results of ingestion                *)
(* ------------------------------------------------------------------ *)

\* The texts of the passages of file_path, in passage order.
PassageTexts(file_path) ==
    LET chunks == chunk_document(Parse(file_path).units)
    IN  [k \in 1..Len(chunks) |-> chunks[k].text]

\* C27: within one ingest_document call the external steps are made in
\* the order parse, embed, add, each at most once; embed is made only
\* after a parse that gave units, add only after embed returned, and
\* what is handed to the store is every passage text of the document in
\* passage order, each with the embedding of that text; the call ends
\* by returning a result.
C27_StepOrder ==
    call.kind # "none" =>
        /\ IsPrefix(call.calls, <<"parse", "embed", "add">>)
        /\ Len(call.calls) >= 2 =>
               /\ ~Parse(call.file).raises
               /\ Parse(call.file).units # <<>>
        /\ Len(call.calls) = 3 =>
               /\ [k \in 1..Len(call.handed) |-> call.handed[k].document]
                      = PassageTexts(call.file)
               /\ \A k \in 1..Len(call.handed) :
                      call.handed[k].embedding = Embedding(call.handed[k].document)
        /\ ~call.raised
        /\ "success" \in DOMAIN call.result

\* C27 witness: a call made the three steps and returned success after
\* handing three passages to the store.
C27_Witness ==
    /\ call.kind # "none"
    /\ call.calls = <<"parse", "embed", "add">>
    /\ Len(call.handed) = 3
    /\ ~call.exc
    /\ call.result.success

\* The sum of chunks_created over the results with success.
ChunksOfSuccessful(results) ==
    SumTo([k \in 1..Len(results) |->
              IF results[k].success THEN results[k].chunks_created ELSE 0],
          Len(results))

\* C28: the batch result has total_files = len(file_paths) = len(results)
\* = successful + failed, results[i] is the result of ingest_document on
\* file_paths[i], and total_chunks is the sum of chunks_created over the
\* successful results.
C28_BatchTotals ==
    /\ batch.pc = "done" =>
          /\ batch.out.total_files = Len(batch.paths)
          /\ Len(batch.out.results) = Len(batch.paths)
          /\ batch.out.successful + batch.out.failed = Len(batch.paths)
          /\ batch.out.successful =
                 Cardinality({k \in 1..Len(batch.out.results) :
                                  batch.out.results[k].success})
          /\ \A k \in 1..Len(batch.paths) :
                 batch.out.results[k].file = PathName(batch.paths[k])
          /\ batch.out.total_chunks = ChunksOfSuccessful(batch.out.results)
    /\ batch.pc # "idle" /\ batch.results # <<>> =>
          /\ call.kind = "batch"
          /\ call.file = batch.paths[Len(batch.results)]
          /\ batch.results[Len(batch.results)] = call.result
    /\ batch.pc = "done" => batch.out.results = batch.results

\* C28 witness: a batch of two files is done, one ingested with three
\* passages and one failed.
C28_Witness ==
    /\ batch.pc = "done"
    /\ Len(batch.paths) = 2
    /\ batch.out.total_files = 2
    /\ batch.out.successful = 1
    /\ batch.out.failed = 1
    /\ batch.out.total_chunks = 3

\* C29: in every ingest_document call that reaches the store, as many
\* passages are handed over as the document has, each with its text,
\* its metadata and its id, and the ids are pairwise distinct, also
\* when units share a section label or have labels with the same
\* normal form.
C29_DistinctIds ==
    call.kind # "none" /\ Len(call.calls) = 3 =>
        /\ Len(call.handed) = Len(PassageTexts(call.file))
        /\ \A k \in 1..Len(call.handed) :
               {"id", "document", "metadata"} \subseteq DOMAIN call.handed[k]
        /\ \A j, k \in 1..Len(call.handed) :
               j # k => call.handed[j].id # call.handed[k].id

\* C29 witness: a call reached the store with four passages of which
\* two have the same section label.
C29_Witness ==
    /\ call.kind # "none"
    /\ Len(call.calls) = 3
    /\ Len(call.handed) = 4
    /\ call.handed[1].metadata.section = call.handed[2].metadata.section
    /\ call.handed[1].id # call.handed[2].id

(* ------------------------------------------------------------------ *)
(* ChromaDBClient.get_or_create_collection with two callers at once    *)
(*                                                                     *)
(* Both callers hold the one ChromaDBClient instance, so they share    *)
(* _collection and the database.  A caller is inside the function at   *)
(* one of its statements: the test of the cached handle ("check"), the *)
(* database call ("create"), the assignment of its result to           *)
(* _collection ("assign") and the return statement, which reads        *)
(* _collection again ("return").  Nothing in the function keeps the    *)
(* other caller out between two of them.                               *)
(* ------------------------------------------------------------------ *)

\* Calls each caller makes at most.
MaxEntries == 2

Callers == {1, 2}

\* A caller that is not inside the function and has not called it yet.
Outside ==
    [pc |-> "out", name |-> "", created |-> NoHandle, returned |-> NoHandle,
     entries |-> 0]

InitRace ==
    /\ race = [kind |-> "race", db |-> <<>>, next |-> 1,
               _collection |-> NoHandle,
               t |-> [c \in Callers |-> Outside]]
    /\ RetrievalIdle /\ InfoIdle /\ MetaIdle /\ ClientIdle
    /\ ChunkerIdle /\ DocIdle
    /\ ChunkIdle
    /\ IdIdle
    /\ IngestIdle

\* Caller c calls get_or_create_collection(collection_name).
Enter(c) ==
    /\ race.t[c].pc = "out"
    /\ race.t[c].entries < MaxEntries
    /\ \E collection_name \in CollectionNames :
          race' = [race EXCEPT !.t[c] =
                      [pc |-> "check", name |-> collection_name,
                       created |-> NoHandle, returned |-> NoHandle,
                       entries |-> @.entries + 1]]
    /\ UNCHANGED <<chunker, doc>>
    /\ UNCHANGED <<cvars, ivars, gvars, tvars>>

\* if self._collection is None or self._collection.name != collection_name
Check(c) ==
    /\ race.t[c].pc = "check"
    /\ race' = [race EXCEPT !.t[c].pc =
                   IF race._collection = NoHandle
                      \/ race._collection.name # race.t[c].name
                   THEN "create" ELSE "return"]
    /\ UNCHANGED <<chunker, doc>>
    /\ UNCHANGED <<cvars, ivars, gvars, tvars>>

\* self._client.get_or_create_collection(name=collection_name, ...)
Create(c) ==
    /\ race.t[c].pc = "create"
    /\ \E r \in {client_get_or_create(race, race.t[c].name)} :
          race' = [race EXCEPT !.db = r.db, !.next = r.next,
                               !.t[c].created = r.handle,
                               !.t[c].pc = "assign"]
    /\ UNCHANGED <<chunker, doc>>
    /\ UNCHANGED <<cvars, ivars, gvars, tvars>>

\* self._collection = <the handle the database call returned>
Assign(c) ==
    /\ race.t[c].pc = "assign"
    /\ race' = [race EXCEPT !._collection = race.t[c].created,
                            !.t[c].pc = "return"]
    /\ UNCHANGED <<chunker, doc>>
    /\ UNCHANGED <<cvars, ivars, gvars, tvars>>

\* return self._collection
Return(c) ==
    /\ race.t[c].pc = "return"
    /\ race' = [race EXCEPT !.t[c].returned = race._collection,
                            !.t[c].pc = "out"]
    /\ UNCHANGED <<chunker, doc>>
    /\ UNCHANGED <<cvars, ivars, gvars, tvars>>

NextRace ==
    \E c \in Callers : Enter(c) \/ Check(c) \/ Create(c) \/ Assign(c) \/ Return(c)

SpecRace == InitRace /\ [][NextRace]_vars

\* C30 (as claimed): a caller that has returned from
\* get_or_create_collection holds a handle of the name it asked for,
\* whatever the other caller did meanwhile.
C30_OwnCollection ==
    race.kind = "race" =>
        \A c \in Callers :
            race.t[c].pc = "out" /\ race.t[c].entries > 0
                => race.t[c].returned.name = race.t[c].name

====
